---- MODULE Spec2Model ----
(***************************************************************************)
(* Model of the lockbox task engine of nffu: the scheduler                 *)
(* (lockbox/scheduler.py), the task handlers (lockbox/tasks.py), the       *)
(* browser adapter's fill_form (lockbox/ghoster.py) and the parts of       *)
(* lockbox/db.py that create and reschedule tasks.                         *)
(*                                                                         *)
(* Granularity: the process is a single asyncio event loop.  One action is *)
(* the code a coroutine runs between two awaits; the awaited database      *)
(* operation takes effect at the start of the step that follows it.        *)
(* Time is in seconds (UTC); local time is UTC + TzOffset.                 *)
(*                                                                         *)
(* The specifications share the actions:                                   *)
(*   Spec         the scheduler with the handlers of the short tasks, the  *)
(*                check of the day on a school day and the internal API;   *)
(*   SpecFill     the scheduler running fill-form tasks and the check of   *)
(*                the day, also on a day without school;                   *)
(*   SpecReport   failure reports of fill-form and their deletion;         *)
(*   SpecControl  the scheduler started again and cancelled;               *)
(*   SpecApi      PATCH /user and the requests without a valid token;      *)
(*   SpecCalls    functions evaluated on their own;                        *)
(*   SpecQueue    POST /update_all_courses and POST /form_geometry;        *)
(*   SpecDay      PATCH /user while the check of the day runs;             *)
(*   SpecTest     POST /test_form;                                         *)
(*   SpecLive     the scheduler under fairness, time passing for ever.     *)
(***************************************************************************)
EXTENDS Integers, Sequences, FiniteSets, TLC

(***************************************************************************)
(* Bounds of the model.                                                    *)
(***************************************************************************)
\* Task documents and task objects alive at the same time
MaxTasks == 5
\* Length of a list (form fields, timetable items) handed to a function
\* evaluated on its own
MaxItems == 2
\* Requests the API serves in a run of SpecApi
MaxRequests == 2
\* A handler is not retried more often than this (the code's own limits are lower)
MaxRetries == 4
\* What the environment does to one run: API requests served plus failures
\* inflicted on the short handlers
MaxEvents == 1
\* How far the clock runs, in seconds after the start of the day
SchedHorizon == 15
FillHorizon == 30600

(***************************************************************************)
(* Program constants.                                                      *)
(***************************************************************************)
Day == 86400
TzOffset == 3600
NoDay == -99
PUSH_BACK == 30
FIREFOX_LIMIT == 3
TDSB_CONNECTS_LIMIT == 7
GLOBAL_LIMIT == 10
FILL_FORM_RETRY_LIMIT == 3
FILL_FORM_RETRY_IN == 1800
CHECK_DAY_RETRY_IN == 3600
CHECK_DAY_RETRY_LIMIT == 1
POPULATE_RETRY_IN == 600
POPULATE_RETRY_LIMIT == 12
TEST_FILL_RETRY_IN == 5
TEST_FILL_RETRY_LIMIT == 2
TEST_RESULT_TTL == 21600
UPDATE_COURSES_BATCH_SIZE == 3
UPDATE_COURSES_INTERVAL == 60
FORM_GEOMETRY_TTL == 900

CHECK_DAY_RUN_TIME == <<[h |-> 4, m |-> 0, s |-> 0], [h |-> 4, m |-> 0, s |-> 0]>>
FILL_FORM_RUN_TIME == <<[h |-> 7, m |-> 0, s |-> 0], [h |-> 9, m |-> 0, s |-> 0]>>

TaskIds == 1..MaxTasks
UserIds == {1, 2, 3}

TaskType == {"fill-form", "check-day", "populate-courses", "test-fill-form",
             "remove-old-test-result", "get-form-geometry", "remove-old-form-geometry"}

GroupNames == {"firefox", "tdsb_connects", "global"}

GroupTypes(g) ==
    CASE g = "firefox" -> {"fill-form", "test-fill-form", "get-form-geometry"}
      [] g = "tdsb_connects" -> {"fill-form", "check-day", "populate-courses", "test-fill-form"}
      [] g = "global" -> TaskType

GroupLimit(g) ==
    CASE g = "firefox" -> FIREFOX_LIMIT
      [] g = "tdsb_connects" -> TDSB_CONNECTS_LIMIT
      [] g = "global" -> GLOBAL_LIMIT

get_groups(kind) == {g \in GroupNames : kind \in GroupTypes(g)}

VARIABLES
    now,            \* the clock (UTC seconds)
    cfg,            \* the run's environment: configuration and what the portal reports
    users,          \* User collection: user id -> document
    tasks,          \* Task collection: task id -> document
    count,          \* TaskTypeGroup.count per group (process-local)
    update_event,   \* Scheduler._update_event
    procPc,         \* "constructed" | "started" | "up": progress of LockboxDB.init
    loopPc,         \* position of Scheduler._run
    loopTask,       \* the Task document object held by Scheduler._run
    hs,             \* running Scheduler._run_task coroutines: task id -> frame
    current_day,    \* LockboxDB.current_day (process-local)
    calls,          \* number of API requests served and of operations invoked on the scheduler from outside
    faults,         \* number of failures inflicted on short handlers so far
    reqs,           \* LockboxDB.modify_user coroutines in flight: request id -> frame
    verified,       \* history: the (login, password) pairs a portal login of modify_user accepted
    reply,          \* the HTTP response sent last
    oids,           \* number of bson.ObjectId()s made for failure events
    geoms,          \* CachedFormGeometry collection: the urls with an entry (all pending)
    call,           \* a function under evaluation on its own: its arguments, locals and result
    shared          \* the shared database: FormFillingTest documents (test id -> flags) and GridFS files

vars == <<now, cfg, users, tasks, count, update_event, procPc, loopPc,
          loopTask, hs, current_day, calls, faults, reqs, verified, reply, oids,
          geoms, call, shared>>

(***************************************************************************)
(* Documents and coroutine frames.                                         *)
(***************************************************************************)
NoSnap == [id |-> 0, kind |-> "none", owner |-> 0, next_run_at |-> 0,
           is_running |-> FALSE, retry_count |-> 0]

NoResult == [type |-> "pending", at |-> 0]

\* The in-memory Task object a coroutine holds after reading document id.
Snap(id) == [id |-> id, kind |-> tasks[id].kind, owner |-> tasks[id].owner,
             next_run_at |-> tasks[id].next_run_at,
             is_running |-> tasks[id].is_running,
             retry_count |-> tasks[id].retry_count]

NewTask(kind, run_at, owner, argument) ==
    [kind |-> kind, owner |-> owner, next_run_at |-> run_at,
     is_running |-> FALSE, retry_count |-> 0, argument |-> argument]

\* A field of a document that is None
None == "None"

\* documents.User as create_user commits it: login and password unset, the
\* defaults of active and errors.  errors holds the ids of the failure events,
\* last_fill_form_result the result type, and screenshots the ids that
\* form_screenshot_id and confirmation_screenshot_id of the result name.
NewUser == [active |-> TRUE, login |-> None, password |-> None, errors |-> {},
            last_fill_form_result |-> None, screenshots |-> {}]

\* Fernet.encrypt and Fernet.decrypt on the passwords of the model
Encrypt(password) ==
    CASE password = "pw" -> "fernet(pw)" [] password = "bad" -> "fernet(bad)" [] OTHER -> None

Decrypt(token) ==
    CASE token = "fernet(pw)" -> "pw" [] token = "fernet(bad)" -> "bad" [] OTHER -> None

\* "login is not None and password is not None"
HasCredentials(user) == user.login # None /\ user.password # None

ZeroCount == [g \in GroupNames |-> 0]

EmptyFn == [i \in {} |-> 0]

Remove(f, id) == [i \in DOMAIN f \ {id} |-> f[i]]

\* Object ids are fresh: an id is free when no document has it and no
\* coroutine still holds an object carrying it.
FreeIds == {i \in TaskIds : i \notin DOMAIN tasks /\ i \notin DOMAIN hs /\ loopTask.id # i}

\* The environment may still act on the run
Budget == calls + faults < cfg.max_events

FreshId == CHOOSE i \in FreeIds : \A j \in FreeIds : i <= j

(***************************************************************************)
(* Local time.                                                             *)
(***************************************************************************)
LocalDay(t) == (t + TzOffset) \div Day

LocalMidnight(d) == d * Day - TzOffset

Secs(tm) == tm.h * 3600 + tm.m * 60 + tm.s

\* tasks.next_run_time: the offset range handed to random.randint
TimeDiff(range) ==
    (range[2].h * 3600 + range[1].m * 60 + range[2].s) - Secs(range[1])

\* random.randint(0, time_diff): the draws the run's generator makes
Offsets(range) == {(r * TimeDiff(range)) \div 2 : r \in cfg.rand}

next_run_time(range, t) ==
    {LocalMidnight(LocalDay(t) + 1) + Secs(range[1]) + off : off \in Offsets(range)}

(***************************************************************************)
(* Scheduler.create_task: persist the document, then update().             *)
(***************************************************************************)
create_taskSilently(kind, run_at, owner, argument) ==
    /\ FreeIds # {}
    /\ tasks' = (FreshId :> NewTask(kind, run_at, owner, argument)) @@ tasks
    /\ UNCHANGED update_event

create_task(kind, run_at, owner, argument) ==
    /\ FreeIds # {}
    /\ tasks' = (FreshId :> NewTask(kind, run_at, owner, argument)) @@ tasks
    /\ update_event' = TRUE

(***************************************************************************)
(* Scheduler.start: _init resets every interrupted task, then the loop is  *)
(* spawned.  No other coroutine exists yet (LockboxServer.make_app awaits  *)
(* LockboxDB.init before the application serves requests).                 *)
(***************************************************************************)
InitTasksReplaced ==
    [i \in DOMAIN tasks |-> [tasks[i] EXCEPT !.is_running = FALSE, !.retry_count = 0]]

InitTasks == [i \in DOMAIN tasks |-> [tasks[i] EXCEPT !.is_running = FALSE]]

Start ==
    /\ procPc = "constructed"
    /\ tasks' = InitTasks
    /\ loopPc' = "select"
    /\ procPc' = "started"
    /\ UNCHANGED <<reqs, verified, reply, oids, now, cfg, shared, call, geoms, users, count, update_event, loopTask, hs, current_day, calls, faults>>

(***************************************************************************)
(* LockboxDB._reschedule_check_day                                         *)
(***************************************************************************)
CheckDayTasks == {i \in DOMAIN tasks : tasks[i].kind = "check-day"}

reschedule_check_day ==
    IF CheckDayTasks = {}
    THEN create_task("check-day", now, 0, "")
    ELSE \E i \in CheckDayTasks :
            IF LocalDay(tasks[i].next_run_at) > LocalDay(now)
            THEN /\ tasks' = [tasks EXCEPT ![i].next_run_at = now]
                 /\ update_event' = TRUE
            ELSE UNCHANGED <<tasks, update_event>>

\* The tail of LockboxDB.init: current_day is None after construction.
InitCheckDay ==
    /\ procPc = "started"
    /\ IF current_day = NoDay
       THEN reschedule_check_day
       ELSE UNCHANGED <<tasks, update_event>>
    /\ procPc' = "up"
    /\ UNCHANGED <<reqs, verified, reply, oids, now, cfg, shared, call, geoms, users, count, loopPc, loopTask, hs, current_day, calls, faults>>

(***************************************************************************)
(* Scheduler._run                                                          *)
(***************************************************************************)
Candidates == {i \in DOMAIN tasks : ~tasks[i].is_running}

\* find_one({"is_running": False}, sort=[("next_run_at", ASCENDING)])
EarliestAny == Candidates

Earliest == {i \in Candidates : \A j \in Candidates : tasks[i].next_run_at <= tasks[j].next_run_at}

AtLimitNever(kind) == FALSE

AtLimit(kind) == \E g \in get_groups(kind) : count[g] >= GroupLimit(g)

Incremented(c, kind) == [g \in GroupNames |-> IF kind \in GroupTypes(g) THEN c[g] + 1 ELSE c[g]]

PushedBackFromNow(t) == [t EXCEPT !.next_run_at = now + PUSH_BACK]

\* task.next_run_at += datetime.timedelta(seconds=30)
PushedBack(t) == [t EXCEPT !.next_run_at = @ + PUSH_BACK]

\* The body of the TimeoutError branch up to its await task.commit()
Consider(t) ==
    IF AtLimit(t.kind)
    THEN /\ loopTask' = PushedBack(t)
         /\ loopPc' = "commit_push"
         /\ UNCHANGED count
    ELSE /\ count' = Incremented(count, t.kind)
         /\ loopTask' = [t EXCEPT !.is_running = TRUE]
         /\ loopPc' = "commit_run"

\* find_one returns; a due task makes wait_for(..., 0) time out at once,
\* whatever the state of the update event.
LoopSelect ==
    /\ loopPc = "select"
    /\ IF Candidates = {}
       THEN /\ loopTask' = NoSnap
            /\ loopPc' = "waiting"
            /\ UNCHANGED count
       ELSE \E i \in Earliest :
               IF tasks[i].next_run_at > now
               THEN /\ loopTask' = Snap(i)
                    /\ loopPc' = "waiting"
                    /\ UNCHANGED count
               ELSE Consider(Snap(i))
    /\ UNCHANGED <<reqs, verified, reply, oids, now, cfg, shared, call, geoms, users, tasks, update_event, procPc, hs, current_day, calls, faults>>

\* wait_for returned because the event was set
LoopWake ==
    /\ loopPc = "waiting"
    /\ update_event
    /\ update_event' = FALSE
    /\ loopPc' = "select"
    /\ UNCHANGED <<reqs, verified, reply, oids, now, cfg, shared, call, geoms, users, tasks, count, procPc, loopTask, hs, current_day, calls, faults>>

\* wait_for timed out
LoopTimeout ==
    /\ loopPc = "waiting"
    /\ ~update_event
    /\ loopTask.id # 0
    /\ now >= loopTask.next_run_at
    /\ Consider(loopTask)
    /\ UNCHANGED <<reqs, verified, reply, oids, now, cfg, shared, call, geoms, users, tasks, update_event, procPc, hs, current_day, calls, faults>>

\* task.commit() of the pushed-back task: only the modified field is written;
\* a vanished document raises UpdateError, which ends _run.
LoopCommitPush ==
    /\ loopPc = "commit_push"
    /\ IF loopTask.id \in DOMAIN tasks
       THEN /\ tasks' = [tasks EXCEPT ![loopTask.id].next_run_at = loopTask.next_run_at]
            /\ loopPc' = "select"
       ELSE /\ loopPc' = "dead"
            /\ UNCHANGED tasks
    /\ UNCHANGED <<reqs, verified, reply, oids, now, cfg, shared, call, geoms, users, count, update_event, procPc, loopTask, hs, current_day, calls, faults>>

NewFrame(t) ==
    [pc |-> IF t.owner # 0 THEN "fetch" ELSE "body", task |-> t, owner |-> NewUser,
     result |-> NoResult, start |-> 0, nfields |-> 0, ghost |-> "none", clicked |-> FALSE,
     recorded |-> None, field_error |-> "none", storage |-> "none"]

\* task.commit() of is_running=True, then asyncio.create_task(_run_task(task))
LoopCommitRun ==
    /\ loopPc = "commit_run"
    /\ IF loopTask.id \in DOMAIN tasks
       THEN /\ tasks' = [tasks EXCEPT ![loopTask.id].is_running = TRUE]
            /\ hs' = (loopTask.id :> NewFrame(loopTask)) @@ hs
            /\ loopPc' = "select"
       ELSE /\ loopPc' = "dead"
            /\ UNCHANGED <<tasks, hs>>
    /\ UNCHANGED <<reqs, verified, reply, oids, now, cfg, shared, call, geoms, users, count, update_event, procPc, loopTask, current_day, calls, faults>>

(***************************************************************************)
(* Scheduler._run_task                                                     *)
(***************************************************************************)
\* await task.owner.fetch(): a missing owner raises before the try block,
\* which ends the coroutine.
FetchOwner(id) ==
    /\ id \in DOMAIN hs
    /\ hs[id].pc = "fetch"
    /\ IF hs[id].task.owner \in DOMAIN users
       THEN hs' = [hs EXCEPT ![id].pc = "body", ![id].owner = users[hs[id].task.owner]]
       ELSE hs' = Remove(hs, id)
    /\ UNCHANGED <<reqs, verified, reply, oids, now, cfg, shared, call, geoms, users, tasks, count, update_event, procPc, loopPc, loopTask, current_day, calls, faults>>

Ret(t) == [type |-> "return", at |-> t]
RetNone == [type |-> "none", at |-> 0]
Retry(r) == [type |-> "retry", at |-> r]
Fail == [type |-> "fail", at |-> 0]
Exc == [type |-> "exception", at |-> 0]

\* "if group.count > 0: group.count -= 1"
Decremented(c, kind) ==
    [g \in GroupNames |-> IF kind \in GroupTypes(g) /\ c[g] > 0 THEN c[g] - 1 ELSE c[g]]

\* What _run_task does with the handler's result up to its next await:
\* the new in-memory task and the counters.
FinishedTaskNoIncrement(t, res) ==
    CASE res.type = "return" -> [t EXCEPT !.retry_count = 0, !.next_run_at = res.at, !.is_running = FALSE]
      [] res.type = "retry" -> [t EXCEPT !.next_run_at = now + res.at, !.is_running = FALSE]
      [] res.type = "none" -> [t EXCEPT !.retry_count = 0]
      [] OTHER -> t

FinishedTask(t, res) ==
    CASE res.type = "return" -> [t EXCEPT !.retry_count = 0, !.next_run_at = res.at, !.is_running = FALSE]
      [] res.type = "retry" -> [t EXCEPT !.retry_count = @ + 1, !.next_run_at = now + res.at, !.is_running = FALSE]
      [] res.type = "none" -> [t EXCEPT !.retry_count = 0]
      [] OTHER -> t

\* The handler's last step: it returns or raises, and _run_task runs on to
\* its await task.commit() / await task.remove().  The "except Exception"
\* branch returns before the counters are updated.
\* h is the frame as the handler leaves it.
FinishFrame(id, h, res) ==
    /\ hs' = [hs EXCEPT ![id] = [h EXCEPT !.pc = "write", !.result = res,
                                          !.task = FinishedTask(h.task, res)]]
    /\ count' = IF res.type = "exception" THEN count ELSE Decremented(count, h.task.kind)

Finish(id, res) == FinishFrame(id, hs[id], res)

\* The awaited commit or remove takes effect and the coroutine ends.
\* commit() writes the modified fields; on a vanished document it raises.
HWrite(id) ==
    /\ id \in DOMAIN hs
    /\ hs[id].pc = "write"
    /\ LET h == hs[id] IN
       IF h.result.type \in {"return", "retry"}
       THEN IF id \in DOMAIN tasks
            THEN /\ tasks' = [tasks EXCEPT ![id].next_run_at = h.task.next_run_at,
                                           ![id].is_running = h.task.is_running,
                                           ![id].retry_count = h.task.retry_count]
                 /\ update_event' = TRUE
            ELSE UNCHANGED <<tasks, update_event>>
       ELSE /\ tasks' = Remove(tasks, id)
            /\ UNCHANGED update_event
    /\ hs' = Remove(hs, id)
    /\ UNCHANGED <<reqs, verified, reply, oids, now, cfg, shared, call, geoms, users, count, procPc, loopPc, loopTask, current_day, calls, faults>>

(***************************************************************************)
(* Handlers other than fill-form and check-day: the results their code can *)
(* produce for a run of frame h.                                           *)
(***************************************************************************)
\* What the handler of "except aiohttp.ClientError" raises
PortalErrorAlwaysRetried(retries) == Retry(POPULATE_RETRY_IN)

PortalError(retries) ==
    IF retries < POPULATE_RETRY_LIMIT THEN Retry(POPULATE_RETRY_IN) ELSE Fail

\* tdsb.get_async_periods, the portal call of populate_courses: it returns
\* the timetable, or raises an aiohttp.ClientError or another exception
get_async_periods == {"timetable", "ClientError", "Exception"}

\* tasks.populate_courses
PopulateResults(h) ==
    IF h.task.owner = 0 THEN {Exc}
    ELSE IF ~HasCredentials(h.owner) \/ Decrypt(h.owner.password) = None THEN {Fail}
    ELSE {CASE answer = "timetable" -> RetNone
            [] answer = "ClientError" -> PortalError(h.task.retry_count)
            [] OTHER -> Exc : answer \in get_async_periods}

\* tasks.test_fill_form
TestFillResults(h) ==
    {RetNone, Exc} \cup (IF h.task.retry_count > TEST_FILL_RETRY_LIMIT THEN {} ELSE {Retry(TEST_FILL_RETRY_IN)})

\* tasks.remove_old_test_result
RemoveOldResults(h) == {RetNone, Exc}

\* get-form-geometry and remove-old-form-geometry
GeometryResults(h) == {RetNone, Exc}

HandlerResults(h) ==
    CASE h.task.kind = "populate-courses" -> PopulateResults(h)
      [] h.task.kind = "test-fill-form" -> TestFillResults(h)
      [] h.task.kind = "remove-old-test-result" -> RemoveOldResults(h)
      [] OTHER -> GeometryResults(h)

SimpleKinds == TaskType \ {"fill-form", "check-day"}

\* A result that takes a failure of the environment
IsFault(res) == res.type \in {"retry", "fail", "exception"}

Faulted(res) ==
    /\ IsFault(res) => Budget
    /\ faults' = IF IsFault(res) THEN faults + 1 ELSE faults

HRun(id) ==
    /\ id \in DOMAIN hs
    /\ hs[id].pc = "body"
    /\ hs[id].task.kind \in SimpleKinds
    /\ \E res \in HandlerResults(hs[id]) :
          /\ Faulted(res)
          /\ Finish(id, res)
    /\ UNCHANGED <<reqs, verified, reply, oids, now, cfg, shared, call, geoms, users, tasks, update_event, procPc, loopPc, loopTask, current_day, calls>>

(***************************************************************************)
(* tasks.check_day                                                         *)
(***************************************************************************)
\* Day cycle names as the portal reports them: "D" on a day without school,
\* "D<N>" on day N of the cycle.
NoSchoolName == <<"D">>

\* int(day[1:])
DayNumber(day) ==
    CASE day[2] = "1" -> 1 [] day[2] = "2" -> 2 [] day[2] = "3" -> 3 [] OTHER -> 4

\* Users whose credentials check_day tries
CredentialUsers == {u \in DOMAIN users : users[u].active /\ HasCredentials(users[u])}

CheckDayRetryAlways(retries, next_run) == Retry(CHECK_DAY_RETRY_IN)

CheckDayRetry(retries, next_run) ==
    IF retries < CHECK_DAY_RETRY_LIMIT THEN Retry(CHECK_DAY_RETRY_IN) ELSE Ret(next_run)

\* The filter of check_day's update_many, with start the local now and end
\* the next local midnight.
PushRange(start, t) ==
    /\ start <= t
    /\ t < LocalMidnight(LocalDay(start) + 1)

PushedKind(kind) == kind = "fill-form"

PushedTasks(start) ==
    [i \in DOMAIN tasks |->
        IF PushedKind(tasks[i].kind) /\ PushRange(start, tasks[i].next_run_at)
        THEN [tasks[i] EXCEPT !.next_run_at = @ + Day]
        ELSE tasks[i]]

\* check_day up to its await update_many (no school) or to its end.
\* got is FALSE when no credentials worked or the portal is down.
CheckDay(id, got) ==
    /\ id \in DOMAIN hs
    /\ hs[id].pc = "body"
    /\ hs[id].task.kind = "check-day"
    /\ got => CredentialUsers # {}
    /\ \E next_run \in next_run_time(CHECK_DAY_RUN_TIME, now) :
          IF ~got
          THEN /\ Budget
               /\ faults' = faults + 1
               /\ current_day' = NoDay
               /\ Finish(id, CheckDayRetry(hs[id].task.retry_count, next_run))
          ELSE IF Len(cfg.portal_day) >= 2
          THEN /\ current_day' = DayNumber(cfg.portal_day)
               /\ Finish(id, Ret(next_run))
               /\ UNCHANGED faults
          ELSE /\ current_day' = -1
               /\ hs' = [hs EXCEPT ![id].pc = "push", ![id].start = now,
                                   ![id].result = Ret(next_run)]
               /\ UNCHANGED <<count, faults>>
    /\ UNCHANGED <<reqs, verified, reply, oids, now, cfg, shared, call, geoms, users, tasks, update_event, procPc, loopPc, loopTask, calls>>

\* The update_many takes effect; check_day returns next_run.
CheckDayPush(id) ==
    /\ id \in DOMAIN hs
    /\ hs[id].pc = "push"
    /\ tasks' = PushedTasks(hs[id].start)
    /\ Finish(id, hs[id].result)
    /\ UNCHANGED <<reqs, verified, reply, oids, now, cfg, shared, call, geoms, users, update_event, procPc, loopPc, loopTask, current_day, calls, faults>>

\* An exception check_day does not catch (the database is unreachable)
CheckDayRaises(id) ==
    /\ id \in DOMAIN hs
    /\ hs[id].pc \in {"body", "push"}
    /\ hs[id].task.kind = "check-day"
    /\ Faulted(Exc)
    /\ Finish(id, Exc)
    /\ UNCHANGED <<reqs, verified, reply, oids, now, cfg, shared, call, geoms, users, tasks, update_event, procPc, loopPc, loopTask, current_day, calls>>

(***************************************************************************)
(* tasks.fill_form and ghoster.fill_form                                   *)
(***************************************************************************)
\* The frame of a fill-form run also keeps what the run met, for the record:
\* storage (what the storage did to the last step), field_error (the kind of
\* field whose expression failed), recorded (the result type the run set).

\* Sizes of the tuples exchanged between tasks.fill_form and ghoster.fill_form
FIELD_TUPLE_LEN == 4
COMPONENT_UNPACK_LEN == 5
GHOSTER_RESULT_LEN == 3
RESULT_UNPACK_LEN == 2

\* "if retries < FILL_FORM_RETRY_LIMIT: raise TaskError(..., FILL_FORM_RETRY_IN)
\*  else: return next_run_time(FILL_FORM_RUN_TIME)"
RetryableAlways(retries, next_run) == Retry(FILL_FORM_RETRY_IN)

Retryable(retries, next_run) ==
    IF retries < FILL_FORM_RETRY_LIMIT THEN Retry(FILL_FORM_RETRY_IN) ELSE Ret(next_run)

\* The catch-all "except Exception" of fill_form.  bound says whether
\* db_course was assigned before the exception; locals().get("db_course").pk
\* raises AttributeError otherwise.  storage is "down" when
\* set_last_result_error or report_failure raise in turn.
CatchAll(retries, next_run, bound, storage) ==
    IF ~bound \/ storage = "down" THEN Exc ELSE Retryable(retries, next_run)

\* What the code before the call of ghoster.fill_form can end in
PreOutcomes == {"decrypt_fail", "bad_school", "no_timetable", "course_missing",
                "portal_down", "no_form", "missing_config",
                "unexpected_early", "unexpected_late", "ready"}

\* The fallback on stored data after aiohttp.ClientError
FallbackOutcomes == {"no_courses", "no_match", "found"}

\* "ok": every database and GridFS call succeeds; "error": the call on the
\* main path raises, those of the catch-all succeed; "down": all raise.
StorageStates == {"ok", "error", "down"}

Proceed == [type |-> "proceed", at |-> 0]

\* tasks.fill_form from the decryption of the password to the call of
\* ghoster.fill_form: the result it ends in, or Proceed.
FillPreResult(pre, fb, storage, retries, next_run, cur_day) ==
    CASE pre \in {"decrypt_fail", "bad_school"} ->
            IF storage = "ok" THEN Ret(next_run) ELSE CatchAll(retries, next_run, FALSE, storage)
      [] pre \in {"no_timetable", "no_form"} -> Ret(next_run)
      [] pre = "course_missing" ->
            IF storage = "ok" THEN Retryable(retries, next_run) ELSE CatchAll(retries, next_run, FALSE, storage)
      [] pre = "portal_down" ->
            IF cur_day = NoDay
            THEN IF storage = "ok" THEN Retryable(retries, next_run) ELSE CatchAll(retries, next_run, FALSE, storage)
            ELSE IF cur_day <= 0 THEN Ret(next_run)
            ELSE IF fb # "found" THEN Ret(next_run)
            ELSE IF storage = "ok" THEN Proceed ELSE CatchAll(retries, next_run, TRUE, storage)
      [] pre = "missing_config" ->
            IF storage = "ok" THEN Ret(next_run) ELSE CatchAll(retries, next_run, TRUE, storage)
      [] pre = "unexpected_late" -> CatchAll(retries, next_run, TRUE, storage)
      [] pre = "unexpected_early" -> CatchAll(retries, next_run, FALSE, storage)
      [] OTHER -> Proceed

\* Whether that part adds a failure event to the owner and commits it
\* (report_failure): in the branch taken, or in the catch-all.
FillPreReports(pre, fb, storage, cur_day) ==
    CASE pre \in {"decrypt_fail", "bad_school", "course_missing"} -> storage = "ok"
      [] pre = "portal_down" ->
            IF cur_day = NoDay THEN storage = "ok"
            ELSE IF cur_day <= 0 \/ fb # "found" THEN FALSE
            ELSE storage # "down"
      [] pre \in {"missing_config", "unexpected_late"} -> storage # "down"
      [] OTHER -> FALSE

\* The same part when the owner's document has been deleted since it was
\* fetched: every owner.commit() raises, also that of the catch-all.  Only
\* the paths that return before the first commit are left.
FillPreGone(pre, fb, next_run, cur_day) ==
    IF pre = "no_timetable" \/ (pre = "portal_down" /\ cur_day # NoDay /\ (cur_day <= 0 \/ fb # "found"))
    THEN Ret(next_run)
    ELSE Exc

\* The outcomes of that part over everything the portal, the stored data and
\* the storage can do: the result and whether a failure event was committed
FillPreResults(retries, next_run, cur_day, gone) ==
    {IF gone
     THEN [res |-> FillPreGone(pre, fb, next_run, cur_day), reported |-> FALSE]
     ELSE [res |-> FillPreResult(pre, fb, st, retries, next_run, cur_day),
           reported |-> FillPreReports(pre, fb, st, cur_day)] :
        pre \in PreOutcomes, fb \in FallbackOutcomes, st \in StorageStates}

\* report_failure up to its commit: a new LockboxFailure with a fresh
\* ObjectId is appended to the errors of the owner object the handler holds
ReportedOwner(o) == [o EXCEPT !.errors = @ \cup {oids + 1}]

\* owner.commit(): the fields modified since the last commit are written,
\* each as a whole: errors when reported, last_fill_form_result when recorded
CommitOwner(uid, o, reported, recorded) ==
    [users EXCEPT ![uid].errors = IF reported THEN o.errors ELSE @,
                  ![uid].last_fill_form_result = IF recorded # None THEN recorded ELSE @,
                  ![uid].screenshots = IF recorded # None THEN o.screenshots ELSE @]

\* What a step of fill_form leaves in the database and in the handler's frame:
\* h is the frame before, out.reported and recorded are what it did
Reporting(h, reported, recorded) ==
    LET o == IF reported THEN ReportedOwner(h.owner) ELSE h.owner IN
    /\ users' = IF (reported \/ recorded # None) /\ h.task.owner \in DOMAIN users
                THEN CommitOwner(h.task.owner, o, reported, recorded)
                ELSE users
    /\ oids' = IF reported THEN oids + 1 ELSE oids

\* set_last_result_error on the owner object: clear_last_result deletes the
\* files its result names, the new result names none
ErrorSet(h, recorded) ==
    [h EXCEPT !.owner.screenshots = IF recorded # None THEN {} ELSE @]

\* GridFS after the files in deleted are deleted and those in uploaded are
\* uploaded before
Stored(uploaded, deleted) ==
    [shared EXCEPT !.files = (@ \cup uploaded) \ deleted,
                   !.made = @ + Cardinality(uploaded)]

AfterReport(h, reported, recorded) ==
    [h EXCEPT !.owner = IF reported THEN ReportedOwner(h.owner) ELSE @,
              !.recorded = IF recorded # None THEN recorded ELSE @]

\* nf is the number of fields the form's configuration has
FillPre(id, nf) ==
    /\ id \in DOMAIN hs
    /\ hs[id].pc = "body"
    /\ hs[id].task.kind = "fill-form"
    /\ LET h == hs[id]
           o == h.owner
           r == h.task.retry_count
           gone == h.task.owner \notin DOMAIN users
       IN \E next_run \in next_run_time(FILL_FORM_RUN_TIME, now) :
          \E out \in IF ~o.active \/ ~HasCredentials(o) THEN {[res |-> Fail, reported |-> FALSE]}
                     ELSE FillPreResults(r, next_run, current_day, gone) :
             LET recorded == IF out.reported /\ out.res # Proceed THEN "failure" ELSE None
                 h1 == AfterReport(ErrorSet(h, recorded), out.reported, recorded)
             IN /\ Reporting(ErrorSet(h, recorded), out.reported, recorded)
                /\ shared' = Stored({}, IF recorded # None THEN o.screenshots ELSE {})
                /\ IF out.res = Proceed
                   THEN /\ hs' = [hs EXCEPT ![id] = [h1 EXCEPT !.pc = "ghost", !.nfields = nf]]
                        /\ UNCHANGED count
                   ELSE /\ out.res.type = "retry" => r < MaxRetries
                        /\ FinishFrame(id, h1, out.res)
    /\ UNCHANGED <<reqs, verified, reply, now, cfg, call, geoms, tasks, update_event, procPc, loopPc, loopTask, current_day, calls, faults>>

\* The loop over form.sub_fields: fieldexpr.interpret raises for a field.
\* critical is what the form's author holds the field to be; the field
\* documents and the tuples built from them carry no such attribute.
FillFieldError(id, critical, storage) ==
    /\ id \in DOMAIN hs
    /\ hs[id].pc = "body"
    /\ hs[id].task.kind = "fill-form"
    /\ hs[id].owner.active /\ HasCredentials(hs[id].owner)
    /\ LET st == IF hs[id].task.owner \in DOMAIN users THEN storage ELSE "down"
           h == [hs[id] EXCEPT !.nfields = 1, !.storage = st,
                               !.field_error = IF critical THEN "critical" ELSE "noncritical"]
           reported == st # "down"
           recorded == IF st # "down" THEN "failure" ELSE None
       IN \E next_run \in next_run_time(FILL_FORM_RUN_TIME, now) :
          LET res == CatchAll(h.task.retry_count, next_run, TRUE, st) IN
             /\ res.type = "retry" => h.task.retry_count < MaxRetries
             /\ Reporting(ErrorSet(h, recorded), reported, recorded)
             /\ shared' = Stored({}, IF recorded # None THEN h.owner.screenshots ELSE {})
             /\ FinishFrame(id, AfterReport(ErrorSet(h, recorded), reported, recorded), res)
    /\ UNCHANGED <<reqs, verified, reply, now, cfg, call, geoms, tasks, update_event, procPc, loopPc, loopTask, current_day, calls, faults>>

\* What ghoster.fill_form can end in: an exception class or a returned tuple
GhostEvents == {"auth_failed", "invalid_form", "browser_error", "no_response", "fine"}

\* ghoster.fill_form, run in the executor.  ev is what the browser does:
\* which wait fails, if any.  late says that a browser_error happens after
\* the submit click (while taking the final screenshot) instead of before.
\* The result is <<outcome, clicked>>.
GhosterFillForm(nf, dry_run, ev, late) ==
    IF ev \in {"auth_failed", "invalid_form"} THEN <<ev, FALSE>>
    ELSE IF nf > 0 /\ FIELD_TUPLE_LEN # COMPONENT_UNPACK_LEN THEN <<"error", FALSE>>
    ELSE IF ev = "browser_error" /\ ~late THEN <<"error", FALSE>>
    ELSE IF dry_run THEN <<"returned", FALSE>>
    ELSE IF ev = "browser_error" THEN <<"error", TRUE>>
    ELSE IF ev = "no_response" THEN <<"possible_fail", TRUE>>
    ELSE <<"returned", TRUE>>

FillGhost(id, ev, late) ==
    /\ id \in DOMAIN hs
    /\ hs[id].pc = "ghost"
    /\ LET g == GhosterFillForm(hs[id].nfields, ~cfg.submit_enabled, ev, late) IN
          hs' = [hs EXCEPT ![id].pc = "after", ![id].ghost = g[1], ![id].clicked = g[2]]
    /\ UNCHANGED <<reqs, verified, reply, oids, now, cfg, shared, call, geoms, users, tasks, count, update_event, procPc, loopPc, loopTask, current_day, calls, faults>>

\* tasks.fill_form after ghoster.fill_form: the except clauses, the
\* unpacking of the result, the uploads and the commit of the result.
FillResult(ghost, clicked, retries, next_run, storage) ==
    CASE ghost = "possible_fail" ->
            IF storage = "ok" THEN Ret(next_run) ELSE CatchAll(retries, next_run, TRUE, storage)
      [] ghost \in {"auth_failed", "invalid_form"} -> CatchAll(retries, next_run, TRUE, storage)
      [] ghost = "error" -> CatchAll(retries, next_run, TRUE, storage)
      [] OTHER ->
            IF GHOSTER_RESULT_LEN # RESULT_UNPACK_LEN THEN CatchAll(retries, next_run, TRUE, storage)
            ELSE IF storage = "ok" THEN Ret(next_run)
            ELSE CatchAll(retries, next_run, TRUE, storage)

\* Whether that part commits a failure event, in its branch or in the catch-all
FillReports(ghost, storage) ==
    IF ghost = "returned" /\ GHOSTER_RESULT_LEN = RESULT_UNPACK_LEN
    THEN storage = "error"
    ELSE storage # "down"

\* The FillFormResultType that part leaves in owner.last_fill_form_result
FillRecorded(ghost, storage, submit_enabled) ==
    IF storage = "down" THEN None
    ELSE IF storage = "error" THEN "failure"
    ELSE IF ghost = "possible_fail" THEN "possible-failure"
    ELSE IF ghost # "returned" \/ GHOSTER_RESULT_LEN # RESULT_UNPACK_LEN THEN "failure"
    ELSE IF submit_enabled THEN "success"
    ELSE "submit-disabled"

\* The call on the main path that raises when the storage state is "error"
FaultPoints == {"upload", "delete", "commit"}

\* What that part does to GridFS.  old are the files the result of the owner
\* object names, new is the id of the next upload.  Only a possible failure
\* gets as far as an upload (of the confirmation screenshot); every other
\* outcome ends in set_last_result_error, whose clear_last_result deletes
\* old.  After a possible failure: upload, clear_last_result (deletes old),
\* the new result, report_failure (commit).  An exception sends the run to
\* the catch-all, whose clear_last_result deletes the files of the result
\* the owner object holds by then: old, unless the main path got past its
\* own clear_last_result, then new.  named are the files the committed
\* result names.
FillFiles(ghost, st, at, old, new) ==
    IF st = "down" THEN [uploaded |-> {}, deleted |-> {}, named |-> old]
    ELSE IF ghost # "possible_fail" THEN [uploaded |-> {}, deleted |-> old, named |-> {}]
    ELSE IF st = "ok" THEN [uploaded |-> {new}, deleted |-> old, named |-> {new}]
    ELSE IF at = "upload" THEN [uploaded |-> {}, deleted |-> old, named |-> {}]
    ELSE IF at = "delete" /\ old # {} THEN [uploaded |-> {new}, deleted |-> old, named |-> {}]
    ELSE [uploaded |-> {new}, deleted |-> old \cup {new}, named |-> {}]

FillPost(id, storage) ==
    /\ id \in DOMAIN hs
    /\ hs[id].pc = "after"
    /\ \E at \in FaultPoints :
       LET st == IF hs[id].task.owner \in DOMAIN users THEN storage ELSE "down"
           f == FillFiles(hs[id].ghost, st, at, hs[id].owner.screenshots, shared.made + 1)
           h == [hs[id] EXCEPT !.storage = st, !.owner.screenshots = f.named]
           reported == FillReports(h.ghost, st)
           recorded == FillRecorded(h.ghost, st, cfg.submit_enabled)
       IN \E next_run \in next_run_time(FILL_FORM_RUN_TIME, now) :
          LET res == FillResult(h.ghost, h.clicked, h.task.retry_count, next_run, st) IN
             /\ res.type = "retry" => h.task.retry_count < MaxRetries
             /\ Reporting(h, reported, recorded)
             /\ shared' = Stored(f.uploaded, f.deleted)
             /\ FinishFrame(id, AfterReport(h, reported, recorded), res)
    /\ UNCHANGED <<reqs, verified, reply, now, cfg, call, geoms, tasks, update_event, procPc, loopPc, loopTask, current_day, calls, faults>>

(***************************************************************************)
(* The internal HTTP API (lockbox/server.py, lockbox/db.py)                *)
(***************************************************************************)
\* An HTTP response; token says what the request's Authorization header
\* held: "valid" (the token of a user), "unknown" (a token of no user) or
\* "none" (no header)
Response(endpoint, token, status, error) ==
    [endpoint |-> endpoint, token |-> token, status |-> status, error |-> error]

NoReply == Response("none", "none", 0, "")

\* DELETE /user: LockboxDB.delete_user deletes the screenshots of the last
\* result and removes the user document
DeleteUser(u) ==
    /\ procPc = "up"
    /\ Budget
    /\ calls' = calls + 1
    /\ u \in DOMAIN users
    /\ shared' = Stored({}, users[u].screenshots)
    /\ users' = Remove(users, u)
    /\ reply' = Response("DELETE /user", "valid", 204, "")
    /\ UNCHANGED <<reqs, verified, oids, now, cfg, call, geoms, tasks, count, update_event, procPc, loopPc, loopTask, hs, current_day, faults>>

\* POST /user/courses/update: LockboxDB.update_user_courses
UpdateUserCourses(u) ==
    /\ procPc = "up"
    /\ Budget
    /\ calls' = calls + 1
    /\ u \in DOMAIN users
    /\ HasCredentials(users[u])
    /\ create_task("populate-courses", now, u, "")
    /\ reply' = Response("POST /user/courses/update", "valid", 204, "")
    /\ UNCHANGED <<reqs, verified, oids, now, cfg, shared, call, geoms, users, count, procPc, loopPc, loopTask, hs, current_day, faults>>

\* POST /test_form: LockboxDB.start_form_test
StartFormTest(u) ==
    /\ procPc = "up"
    /\ Budget
    /\ calls' = calls + 1
    /\ u \in DOMAIN users
    /\ Cardinality(FreeIds) >= 2
    /\ LET i1 == FreshId
           i2 == CHOOSE i \in FreeIds \ {i1} : \A j \in FreeIds \ {i1} : i <= j
       IN tasks' = (i1 :> NewTask("test-fill-form", now, u, "oid"))
                   @@ (i2 :> NewTask("remove-old-test-result", now + TEST_RESULT_TTL, 0, "oid"))
                   @@ tasks
    /\ update_event' = TRUE
    /\ reply' = Response("POST /test_form", "valid", 204, "")
    /\ UNCHANGED <<reqs, verified, oids, now, cfg, shared, call, geoms, users, count, procPc, loopPc, loopTask, hs, current_day, faults>>

\* DELETE /user/error/<id>: LockboxDB.delete_user_error, one update_one with
\* $pull; eid is the id of an event made at some time
DeleteUserError(u, eid) ==
    /\ procPc = "up"
    /\ Budget
    /\ calls' = calls + 1
    /\ u \in DOMAIN users
    /\ IF eid \in users[u].errors
       THEN /\ users' = [users EXCEPT ![u].errors = @ \ {eid}]
            /\ reply' = Response("DELETE /user/error", "valid", 204, "")
       ELSE /\ reply' = Response("DELETE /user/error", "valid", 400, "Bad error id")
            /\ UNCHANGED users
    /\ UNCHANGED <<reqs, verified, oids, now, cfg, shared, call, geoms, tasks, count, update_event, procPc, loopPc, loopTask, hs, current_day, faults>>

\* POST /debug/tasks/update
DebugUpdate ==
    /\ procPc = "up"
    /\ Budget
    /\ calls' = calls + 1
    /\ ~update_event
    /\ update_event' = TRUE
    /\ reply' = Response("POST /debug/tasks/update", "valid", 204, "")
    /\ UNCHANGED <<reqs, verified, oids, now, cfg, shared, call, geoms, users, tasks, count, procPc, loopPc, loopTask, hs, current_day, faults>>

(***************************************************************************)
(* PATCH /user: LockboxDB.modify_user, one coroutine per request.          *)
(***************************************************************************)
\* A request body: fields are the keys present, the rest of the record their
\* values (None, or FALSE for active, for a key that is absent)
Body(fields, login, password, active) ==
    [fields |-> fields, login |-> login, password |-> password, active |-> active]

\* The pairs of login and password the portal accepts
Accepted == {<<"100", "pw">>}

\* What TDSBConnects.login / get_user_info can answer to a pair
PortalAnswers(login, password) ==
    IF <<login, password>> \in Accepted THEN {"ok", "error"} ELSE {"unauthorized", "error"}

LoginErrorAsBadToken(answer) ==
    IF answer = "unauthorized"
    THEN Response("PATCH /user", "valid", 401, "Incorrect TDSB credentials")
    ELSE Response("PATCH /user", "valid", 400, "HTTP error while logging into TDSB Connects")

\* The LockboxDBError raised for an aiohttp.ClientResponseError, as
\* _handle_db_errors answers it
LoginError(answer) ==
    IF answer = "unauthorized"
    THEN Response("PATCH /user", "valid", 400, "Incorrect TDSB credentials")
    ELSE Response("PATCH /user", "valid", 400, "HTTP error while logging into TDSB Connects")

\* find_one returned the user; the fields of the body are set on the object.
\* prior are the requests answered before this one began.
PatchStart(u, body) ==
    /\ procPc = "up"
    /\ Budget
    /\ calls' = calls + 1
    /\ u \in DOMAIN users
    /\ LET user == [users[u] EXCEPT
                       !.login = IF "login" \in body.fields THEN body.login ELSE @,
                       !.password = IF "password" \in body.fields THEN Encrypt(body.password) ELSE @,
                       !.active = IF "active" \in body.fields THEN body.active ELSE @]
           verify == HasCredentials(user) /\ ({"login", "password"} \cap body.fields # {})
       IN reqs' = (calls + 1 :> [pc |-> IF verify THEN "login" ELSE "commit", uid |-> u,
                                 body |-> body, user |-> user, verify |-> verify,
                                 answer |-> "none", status |-> 0, found |-> 0,
                                 prior |-> {r \in DOMAIN reqs : reqs[r].pc = "done"}]) @@ reqs
    /\ UNCHANGED <<verified, reply, oids, now, cfg, shared, call, geoms, users, tasks, count, update_event, procPc, loopPc, loopTask, hs, current_day, faults>>

Answered(rid, response) ==
    /\ reqs' = [reqs EXCEPT ![rid].pc = "done", ![rid].status = response.status]
    /\ reply' = response

\* session.login(login, password) with the arguments of the request
PatchVerify(rid, answer) ==
    /\ rid \in DOMAIN reqs
    /\ reqs[rid].pc = "login"
    /\ answer \in PortalAnswers(reqs[rid].body.login, reqs[rid].body.password)
    /\ IF answer = "ok"
       THEN /\ verified' = verified \cup {<<reqs[rid].body.login, reqs[rid].body.password>>}
            /\ reqs' = [reqs EXCEPT ![rid].pc = "commit", ![rid].answer = answer]
            /\ UNCHANGED reply
       ELSE /\ reqs' = [reqs EXCEPT ![rid].pc = "done", ![rid].answer = answer,
                                    ![rid].status = LoginError(answer).status]
            /\ reply' = LoginError(answer)
            /\ UNCHANGED verified
    /\ UNCHANGED <<oids, now, cfg, shared, call, geoms, users, tasks, count, update_event, procPc, loopPc, loopTask, hs, current_day, calls, faults>>

\* user.commit(): the fields set by the request are written
PatchCommit(rid) ==
    /\ rid \in DOMAIN reqs
    /\ reqs[rid].pc = "commit"
    /\ LET r == reqs[rid] IN
       IF r.uid \in DOMAIN users
       THEN /\ users' = [users EXCEPT
                   ![r.uid].login = IF "login" \in r.body.fields THEN r.user.login ELSE @,
                   ![r.uid].password = IF "password" \in r.body.fields THEN r.user.password ELSE @,
                   ![r.uid].active = IF "active" \in r.body.fields THEN r.user.active ELSE @]
            /\ reqs' = [reqs EXCEPT ![rid].pc = IF r.verify THEN "populate" ELSE "fill"]
            /\ UNCHANGED reply
       ELSE /\ Answered(rid, Response("PATCH /user", "valid", 500, "UpdateError"))
            /\ UNCHANGED users
    /\ UNCHANGED <<verified, oids, now, cfg, shared, call, geoms, tasks, count, update_event, procPc, loopPc, loopTask, hs, current_day, calls, faults>>

\* create_task(kind=POPULATE_COURSES, owner=user) after a verification
PatchPopulate(rid) ==
    /\ rid \in DOMAIN reqs
    /\ reqs[rid].pc = "populate"
    /\ create_task("populate-courses", now, reqs[rid].uid, "")
    /\ reqs' = [reqs EXCEPT ![rid].pc = "fill"]
    /\ UNCHANGED <<verified, reply, oids, now, cfg, shared, call, geoms, users, count, procPc, loopPc, loopTask, hs, current_day, calls, faults>>

FillFormTasks(u) == {i \in DOMAIN tasks : tasks[i].kind = "fill-form" /\ tasks[i].owner = u}

\* "run_at = next_run_time(FILL_FORM_RUN_TIME)", a day earlier if that is
\* still to come
FirstRunTimes ==
    {IF run_at - Day >= now THEN run_at - Day ELSE run_at :
        run_at \in next_run_time(FILL_FORM_RUN_TIME, now)}

\* The fill-form task of the user: find_one looks it up; it is to be
\* created when the user is active with credentials and has none, and is
\* removed when "not active"
PatchFillTask(rid) ==
    /\ rid \in DOMAIN reqs
    /\ reqs[rid].pc = "fill"
    /\ LET r == reqs[rid] IN
       IF r.user.active /\ HasCredentials(r.user)
       THEN IF FillFormTasks(r.uid) = {}
            THEN /\ reqs' = [reqs EXCEPT ![rid].pc = "create_fill"]
                 /\ UNCHANGED <<reply, tasks, update_event>>
            ELSE /\ Answered(rid, Response("PATCH /user", "valid", 204, ""))
                 /\ UNCHANGED <<tasks, update_event>>
       ELSE /\ IF ~("active" \in r.body.fields /\ r.body.active) /\ FillFormTasks(r.uid) # {}
               THEN /\ \E i \in FillFormTasks(r.uid) : tasks' = Remove(tasks, i)
                    /\ update_event' = TRUE
               ELSE UNCHANGED <<tasks, update_event>>
            /\ Answered(rid, Response("PATCH /user", "valid", 204, ""))
    /\ UNCHANGED <<verified, oids, now, cfg, shared, call, geoms, users, count, procPc, loopPc, loopTask, hs, current_day, calls, faults>>

\* create_task(kind=FILL_FORM, run_at=run_at, owner=user) after find_one
\* returned None
PatchCreateFill(rid) ==
    /\ rid \in DOMAIN reqs
    /\ reqs[rid].pc = "create_fill"
    /\ \E run_at \in FirstRunTimes : create_task("fill-form", run_at, reqs[rid].uid, "")
    /\ reqs' = [reqs EXCEPT ![rid].pc = "check_day"]
    /\ UNCHANGED <<verified, reply, oids, now, cfg, shared, call, geoms, users, count, procPc, loopPc, loopTask, hs, current_day, calls, faults>>

\* "await self._reschedule_check_day()" after the fill-form task was
\* created: its find_one; found is 0 for None
PatchCheckDay(rid) ==
    /\ rid \in DOMAIN reqs
    /\ reqs[rid].pc = "check_day"
    /\ \E i \in (IF CheckDayTasks = {} THEN {0} ELSE CheckDayTasks) :
          IF i = 0 \/ LocalDay(tasks[i].next_run_at) > LocalDay(now)
          THEN /\ reqs' = [reqs EXCEPT ![rid].pc = "write_check_day", ![rid].found = i]
               /\ UNCHANGED reply
          ELSE Answered(rid, Response("PATCH /user", "valid", 204, ""))
    /\ UNCHANGED <<verified, oids, now, cfg, shared, call, geoms, users, tasks, count, update_event, procPc, loopPc, loopTask, hs, current_day, calls, faults>>

\* _reschedule_check_day after its find_one: create_task(kind=CHECK_DAY)
\* when none was found, else the commit of next_run_at = utcnow()
PatchWriteCheckDay(rid) ==
    /\ rid \in DOMAIN reqs
    /\ reqs[rid].pc = "write_check_day"
    /\ LET i == reqs[rid].found IN
       IF i = 0
       THEN /\ create_task("check-day", now, 0, "")
            /\ Answered(rid, Response("PATCH /user", "valid", 204, ""))
       ELSE IF i \in DOMAIN tasks
       THEN /\ tasks' = [tasks EXCEPT ![i].next_run_at = now]
            /\ update_event' = TRUE
            /\ Answered(rid, Response("PATCH /user", "valid", 204, ""))
       ELSE /\ Answered(rid, Response("PATCH /user", "valid", 500, "UpdateError"))
            /\ UNCHANGED <<tasks, update_event>>
    /\ UNCHANGED <<verified, oids, now, cfg, shared, call, geoms, users, count, procPc, loopPc, loopTask, hs, current_day, calls, faults>>

(***************************************************************************)
(* Requests that carry no token of a user.                                 *)
(***************************************************************************)
\* The routes of LockboxServer other than POST /user
Endpoints == {"PATCH /user", "GET /user", "DELETE /user", "DELETE /user/error",
              "GET /user/courses", "POST /user/courses/update", "POST /form_geometry",
              "POST /update_all_courses", "GET /debug/tasks", "POST /debug/tasks/update",
              "POST /test_form"}

\* The handlers decorated with _json_payload, which is applied outside of
\* _extract_token
PayloadEndpoints == {"PATCH /user", "POST /form_geometry", "POST /test_form"}

\* The handlers without _extract_token
OpenEndpoints == {"POST /update_all_courses", "GET /debug/tasks", "POST /debug/tasks/update"}

\* LOCKBOX_UPDATE_COURSES_BATCH_SIZE and LOCKBOX_UPDATE_COURSES_INTERVAL as
\* update_all_courses reads them: a value it rejects (or none) leaves the
\* default
BatchSize(b) == IF b < 1 THEN UPDATE_COURSES_BATCH_SIZE ELSE b
Interval(i) == IF i < 0 THEN UPDATE_COURSES_INTERVAL ELSE i

\* The elements of a set of numbers in ascending order (the order in which
\* a cursor returns documents, and in which ids are handed out)
Ascending(S) ==
    CHOOSE s \in [1..Cardinality(S) -> S] : \A a, b \in 1..Cardinality(S) : a < b => s[a] < s[b]

BatchStepNever(batch, run_at, batch_size, interval) == [batch |-> batch + 1, run_at |-> run_at]

\* "batch += 1; if batch >= batch_size: batch = 0; run_at += interval"
BatchStep(batch, run_at, batch_size, interval) ==
    IF batch + 1 >= batch_size
    THEN [batch |-> 0, run_at |-> run_at + interval]
    ELSE [batch |-> batch + 1, run_at |-> run_at]

\* The run_at of the tasks the loop of update_all_courses creates for n users
RECURSIVE RunAts(_, _, _, _, _)
RunAts(n, batch, run_at, batch_size, interval) ==
    IF n = 0 THEN <<>>
    ELSE LET s == BatchStep(batch, run_at, batch_size, interval)
         IN <<run_at>> \o RunAts(n - 1, s.batch, s.run_at, batch_size, interval)

\* LockboxDB.update_all_courses: a populate-courses task for every user with
\* login and password, in batches
UpdateAllCourses(batch_size, interval) ==
    LET U == Ascending({u \in DOMAIN users : HasCredentials(users[u])})
        F == Ascending(FreeIds)
        n == Cardinality({u \in DOMAIN users : HasCredentials(users[u])})
        at == RunAts(n, 0, now, batch_size, interval)
    IN /\ Cardinality(FreeIds) >= n
       /\ tasks' = [i \in {F[k] : k \in 1..n} |->
                       LET k == CHOOSE j \in 1..n : F[j] = i
                       IN NewTask("populate-courses", at[k], U[k], "")] @@ tasks
       /\ update_event' = (update_event \/ n > 0)

\* A request to endpoint whose Authorization header is missing
\* (token = "none") or names no user (token = "unknown"); has_body says
\* that it carries a well-formed JSON body
Anonymous(endpoint, token, has_body) ==
    /\ procPc = "up"
    /\ Budget
    /\ calls' = calls + 1
    /\ IF endpoint \in PayloadEndpoints /\ ~has_body
       THEN /\ reply' = Response(endpoint, token, 400, "Missing body")
            /\ UNCHANGED <<tasks, update_event>>
       ELSE IF endpoint = "POST /update_all_courses"
       THEN /\ UpdateAllCourses(UPDATE_COURSES_BATCH_SIZE, UPDATE_COURSES_INTERVAL)
            /\ reply' = Response(endpoint, token, 204, "")
       ELSE IF endpoint = "POST /debug/tasks/update"
       THEN /\ update_event' = TRUE
            /\ UNCHANGED tasks
            /\ reply' = Response(endpoint, token, 204, "")
       ELSE IF endpoint = "GET /debug/tasks"
       THEN /\ reply' = Response(endpoint, token, 200, "")
            /\ UNCHANGED <<tasks, update_event>>
       ELSE /\ reply' = Response(endpoint, token, 401,
                                 IF token = "none" THEN "Missing token" ELSE "Bad token")
            /\ UNCHANGED <<tasks, update_event>>
    /\ UNCHANGED <<reqs, verified, oids, now, cfg, shared, call, geoms, users, count, procPc, loopPc, loopTask, hs, current_day, faults>>

(***************************************************************************)
(* The environment: time passes.                                            *)
(***************************************************************************)
\* The instants at which something is scheduled
Instants ==
    {tasks[i].next_run_at : i \in DOMAIN tasks}
    \cup {hs[i].task.next_run_at : i \in DOMAIN hs}
    \cup {loopTask.next_run_at}

Tick ==
    /\ \E t \in Instants :
          /\ t > now
          /\ t <= cfg.horizon
          /\ now' = t
    /\ UNCHANGED <<reqs, verified, reply, oids, cfg, shared, call, geoms, users, tasks, count, update_event, procPc, loopPc, loopTask, hs, current_day, calls, faults>>

(***************************************************************************)
(* Runs.  A run starts from the database an earlier run of the process     *)
(* left behind: some of its tasks were running when that process died.     *)
(***************************************************************************)
\* A user whose credentials were verified and stored by an earlier run
CredUserOf(login) == [NewUser EXCEPT !.login = login, !.password = Encrypt("pw")]

CredUser == CredUserOf("100")

T(kind, at, owner, retries) ==
    [kind |-> kind, owner |-> owner, next_run_at |-> at, is_running |-> FALSE,
     retry_count |-> retries,
     argument |-> IF kind \in {"test-fill-form", "remove-old-test-result"} THEN "oid" ELSE ""]

\* The database in which the tasks of set R were running when the process
\* died; "interrupted" lists the sets a run draws R from
Interrupted(db, R) == [i \in DOMAIN db |-> [db[i] EXCEPT !.is_running = (i \in R)]]

\* No function is evaluated on its own
NoCall == [fn |-> "none"]

\* inputs are the calls a run may begin with
InitRun(scenarios, inputs) ==
    /\ call \in inputs
    /\ geoms = {}
    /\ \E s \in scenarios :
          /\ now = s.now
          /\ cfg = s.cfg
          /\ users = s.users
          /\ \E R \in s.interrupted : tasks = Interrupted(s.tasks, R)
          /\ LET files == UNION {s.users[u].screenshots : u \in DOMAIN s.users} IN
                shared = [tests |-> IF "tests" \in DOMAIN s THEN s.tests ELSE EmptyFn,
                          files |-> files, made |-> Cardinality(files)]
    /\ count = ZeroCount
    /\ update_event = FALSE
    /\ procPc = "constructed"
    /\ loopPc = "off"
    /\ loopTask = NoSnap
    /\ hs = EmptyFn
    /\ current_day = NoDay
    /\ calls = 0
    /\ faults = 0
    /\ reqs = EmptyFn
    /\ verified = {<<users[u].login, Decrypt(users[u].password)>> :
                       u \in {v \in DOMAIN users : HasCredentials(users[v])}}
    /\ reply = NoReply
    /\ oids = Cardinality(UNION {users[u].errors : u \in DOMAIN users})

InitWith(scenarios) == InitRun(scenarios, {NoCall})

Loop == LoopSelect \/ LoopWake \/ LoopTimeout \/ LoopCommitPush \/ LoopCommitRun

(***************************************************************************)
(* Spec: the scheduler on a school day, shortly after local midnight.      *)
(***************************************************************************)
SchedCfg == [horizon |-> SchedHorizon, submit_enabled |-> TRUE, portal_day |-> <<"D", "2">>,
             rand |-> {1}, max_events |-> MaxEvents]

\* Four form tests of one user, all due: one more than the browser limit
BrowserRush ==
    [now |-> 10, cfg |-> SchedCfg, users |-> (1 :> CredUser),
     tasks |-> (1 :> T("test-fill-form", 6, 1, 1)) @@ (2 :> T("test-fill-form", 7, 1, 0))
               @@ (3 :> T("test-fill-form", 8, 1, 0)) @@ (4 :> T("test-fill-form", 9, 1, 0))
               @@ (5 :> T("check-day", 3000, 0, 0)),
     interrupted |-> SUBSET (1..5) \ {{}}]

\* Tasks of several kinds, one of them due later
MixedKinds ==
    [now |-> 10, cfg |-> SchedCfg, users |-> (1 :> CredUser),
     tasks |-> (1 :> T("check-day", 9, 0, 0)) @@ (2 :> T("populate-courses", 10, 1, 2))
               @@ (3 :> T("remove-old-test-result", 15, 0, 0)),
     interrupted |-> SUBSET (1..3) \ {{}}]

\* A new installation
EmptyDatabase ==
    [now |-> 10, cfg |-> SchedCfg, users |-> (1 :> CredUser), tasks |-> EmptyFn,
     interrupted |-> {{}}]

\* The check of the day is due again after a first failure
CheckRetried ==
    [now |-> 10, cfg |-> SchedCfg, users |-> (1 :> CredUser),
     tasks |-> (1 :> T("check-day", 9, 0, 1))
               @@ (2 :> T("populate-courses", 10, 1, POPULATE_RETRY_LIMIT)),
     interrupted |-> {{}}]

Init == InitWith({BrowserRush, MixedKinds, EmptyDatabase, CheckRetried})

RunTask ==
    \E id \in TaskIds :
        \/ FetchOwner(id)
        \/ HRun(id)
        \/ HWrite(id)
        \/ \E got \in BOOLEAN : CheckDay(id, got)
        \/ CheckDayRaises(id)

Api ==
    \/ \E u \in UserIds : DeleteUser(u) \/ UpdateUserCourses(u) \/ StartFormTest(u)
    \/ DebugUpdate

Next == Start \/ InitCheckDay \/ Loop \/ RunTask \/ Api \/ Tick

Spec == Init /\ [][Next]_vars

(***************************************************************************)
(* SpecFill: the process comes up at 08:00 local time.                     *)
(***************************************************************************)
\* One user's fill-form task is due, with any number of retries behind it
FormDue(retries, submit) ==
    [now |-> 25200,
     cfg |-> [horizon |-> FillHorizon, submit_enabled |-> submit, portal_day |-> <<"D", "2">>,
              rand |-> {0, 2}, max_events |-> 0],
     users |-> (1 :> CredUser),
     tasks |-> (1 :> T("fill-form", 25200, 1, retries)),
     interrupted |-> {{}, {1}}]

\* A day without school: the check of the day (04:00) and one fill-form task
\* (07:30) are overdue, another fill-form task is due at 08:30, a third one
\* tomorrow at 07:30; a task of another kind is due at 08:30 as well
NoSchool ==
    [now |-> 25200,
     cfg |-> [horizon |-> 25200, submit_enabled |-> TRUE, portal_day |-> NoSchoolName,
              rand |-> {1}, max_events |-> 0],
     users |-> (1 :> CredUser) @@ (2 :> CredUserOf("101")) @@ (3 :> CredUserOf("102")),
     tasks |-> (1 :> T("check-day", 10800, 0, 0)) @@ (2 :> T("fill-form", 23400, 1, 0))
               @@ (3 :> T("fill-form", 27000, 2, 0)) @@ (4 :> T("fill-form", 109800, 3, 0))
               @@ (5 :> T("populate-courses", 27000, 2, 0)),
     interrupted |-> {{}, {1}}]

\* The same with a user whose last run ended in a possible failure, its
\* confirmation screenshot stored
FormDueAgain ==
    [FormDue(0, TRUE) EXCEPT
        !.users = (1 :> [CredUser EXCEPT !.last_fill_form_result = "possible-failure",
                                         !.screenshots = {1}])]

InitFill ==
    InitWith({FormDue(r, s) : r \in {0, FILL_FORM_RETRY_LIMIT}, s \in BOOLEAN}
             \cup {FormDueAgain, NoSchool})

RunFill ==
    \E id \in TaskIds :
        \/ FetchOwner(id)
        \/ HWrite(id)
        \/ \E got \in BOOLEAN : CheckDay(id, got)
        \/ CheckDayPush(id)
        \/ \E nf \in 0..1 : FillPre(id, nf)
        \/ \E critical \in BOOLEAN, st \in StorageStates : FillFieldError(id, critical, st)
        \/ \E ev \in GhostEvents, late \in BOOLEAN : FillGhost(id, ev, late)
        \/ \E st \in StorageStates : FillPost(id, st)

\* Fewer than FIREFOX_LIMIT browser tasks exist in these runs: the loop never
\* finds a group at its limit
LoopFill == LoopSelect \/ LoopWake \/ LoopTimeout \/ LoopCommitRun

NextFill == Start \/ InitCheckDay \/ LoopFill \/ RunFill \/ Tick

SpecFill == InitFill /\ [][NextFill]_vars

(***************************************************************************)
(* SpecApi: requests to the API while the scheduler is idle.               *)
(***************************************************************************)
ApiCfg == [horizon |-> 25200, submit_enabled |-> TRUE, portal_day |-> <<"D", "2">>,
           rand |-> {1}, max_events |-> MaxRequests]

\* A user just created by POST /user
FreshUser ==
    [now |-> 25200, cfg |-> ApiCfg, users |-> (1 :> NewUser), tasks |-> EmptyFn,
     interrupted |-> {{}}]

\* A user with credentials, the fill-form task and the check of the day
KnownUser ==
    [now |-> 25200, cfg |-> ApiCfg, users |-> (1 :> CredUser),
     tasks |-> (1 :> T("fill-form", 27000, 1, 0)) @@ (2 :> T("check-day", 97200, 0, 0)),
     interrupted |-> {{}}]

PatchBodies ==
    {Body({"login", "password"}, "100", "pw", FALSE),
     Body({"login", "password", "active"}, "100", "bad", FALSE),
     Body({"login"}, "200", None, FALSE),
     Body({"password"}, None, "pw", FALSE),
     Body({"active"}, None, None, FALSE)}

InitApi == InitWith({FreshUser, KnownUser})

PatchUser ==
    \/ \E u \in UserIds, body \in PatchBodies : PatchStart(u, body)
    \/ \E rid \in 1..MaxRequests :
          \/ \E answer \in {"ok", "unauthorized", "error"} : PatchVerify(rid, answer)
          \/ PatchCommit(rid)
          \/ PatchPopulate(rid)
          \/ PatchFillTask(rid)
          \/ PatchCreateFill(rid)
          \/ PatchCheckDay(rid)

NextApi ==
    \/ Start
    \/ InitCheckDay
    \/ PatchUser
    \/ \E endpoint \in Endpoints, token \in {"none", "unknown"}, has_body \in BOOLEAN :
          Anonymous(endpoint, token, has_body)

SpecApi == InitApi /\ [][NextApi]_vars

(***************************************************************************)
(* SpecDay: PATCH /user requests while the scheduler runs the check of the *)
(* day.                                                                    *)
(***************************************************************************)
\* One failure of the check of the day and two requests
DayEvents == 3

\* Two users who have credentials and had switched form filling off, at
\* 08:00 local time on a school day
IdleUsers ==
    [now |-> 25200, cfg |-> [ApiCfg EXCEPT !.max_events = DayEvents],
     users |-> (1 :> [CredUser EXCEPT !.active = FALSE])
               @@ (2 :> [CredUserOf("101") EXCEPT !.active = FALSE]),
     tasks |-> EmptyFn, interrupted |-> {{}}]

InitDay == InitWith({IdleUsers})

\* PATCH /user {"active": true}, sent once the check-day task is gone: no
\* credentials to verify, and unlike in SpecApi _reschedule_check_day has
\* something to write.
PatchDay ==
    \/ \E u \in UserIds :
          /\ CheckDayTasks = {}
          /\ PatchStart(u, Body({"active"}, None, None, TRUE))
    \/ \E rid \in 1..MaxRequests :
          \/ PatchCommit(rid)
          \/ PatchFillTask(rid)
          \/ PatchCreateFill(rid)
          \/ PatchCheckDay(rid)
          \/ PatchWriteCheckDay(rid)

\* The clock stands still and only the check of the day is ever due: the
\* loop never times out on a later task and no group gets full.
RunDay ==
    \/ LoopSelect \/ LoopWake \/ LoopCommitRun
    \/ \E id \in TaskIds :
          \/ \E got \in BOOLEAN : CheckDay(id, got)
          \/ CheckDayRaises(id)
          \/ HWrite(id)

NextDay == Start \/ InitCheckDay \/ RunDay \/ PatchDay

SpecDay == InitDay /\ [][NextDay]_vars

(***************************************************************************)
(* SpecTest: POST /test_form requests, the whole handler of the server.    *)
(***************************************************************************)
\* The id of the FormFillingTest document the requests name
TestId == "oid"

FormTest(is_scheduled, is_finished) ==
    [is_scheduled |-> is_scheduled, is_finished |-> is_finished]

\* _post_test_form up to start_form_test: find_form_test_context and the
\* check of the flags of the context
TestFormFind(u) ==
    /\ procPc = "up"
    /\ Budget
    /\ calls' = calls + 1
    /\ u \in DOMAIN users
    /\ TestId \in DOMAIN shared.tests
    /\ LET context == shared.tests[TestId]
           frame == [pc |-> "find_user", uid |-> u, status |-> 0,
                     prior |-> {r \in DOMAIN reqs : reqs[r].pc = "done"}]
       IN IF context.is_finished \/ context.is_scheduled
          THEN /\ reqs' = (calls + 1 :> [frame EXCEPT !.pc = "done", !.status = 409]) @@ reqs
               /\ reply' = Response("POST /test_form", "valid", 409,
                                    "already in progress or already finished")
          ELSE /\ reqs' = (calls + 1 :> frame) @@ reqs
               /\ UNCHANGED reply
    /\ UNCHANGED <<verified, oids, now, cfg, shared, call, geoms, users, tasks, count, update_event, procPc, loopPc, loopTask, hs, current_day, faults>>

\* start_form_test: find_one({"token": token})
TestFormUser(rid) ==
    /\ rid \in DOMAIN reqs
    /\ reqs[rid].pc = "find_user"
    /\ IF reqs[rid].uid \in DOMAIN users
       THEN /\ reqs' = [reqs EXCEPT ![rid].pc = "create_test"]
            /\ UNCHANGED reply
       ELSE Answered(rid, Response("POST /test_form", "valid", 401, "Bad token"))
    /\ UNCHANGED <<verified, oids, now, cfg, shared, call, geoms, users, tasks, count, update_event, procPc, loopPc, loopTask, hs, current_day, calls, faults>>

\* create_task(kind=TEST_FILL_FORM, owner=user, argument=oid)
TestFormCreate(rid) ==
    /\ rid \in DOMAIN reqs
    /\ reqs[rid].pc = "create_test"
    /\ create_task("test-fill-form", now, reqs[rid].uid, TestId)
    /\ reqs' = [reqs EXCEPT ![rid].pc = "create_removal"]
    /\ UNCHANGED <<verified, reply, oids, now, cfg, shared, call, geoms, users, count, procPc, loopPc, loopTask, hs, current_day, calls, faults>>

\* create_task(run_at=utcnow() + 6 h, kind=REMOVE_OLD_TEST_RESULTS, argument=oid)
TestFormCreateRemoval(rid) ==
    /\ rid \in DOMAIN reqs
    /\ reqs[rid].pc = "create_removal"
    /\ create_task("remove-old-test-result", now + TEST_RESULT_TTL, 0, TestId)
    /\ reqs' = [reqs EXCEPT ![rid].pc = "commit"]
    /\ UNCHANGED <<verified, reply, oids, now, cfg, shared, call, geoms, users, count, procPc, loopPc, loopTask, hs, current_day, calls, faults>>

\* "context.is_scheduled = True; await context.commit()", then 204
TestFormCommit(rid) ==
    /\ rid \in DOMAIN reqs
    /\ reqs[rid].pc = "commit"
    /\ shared' = [shared EXCEPT !.tests[TestId].is_scheduled = TRUE]
    /\ Answered(rid, Response("POST /test_form", "valid", 204, ""))
    /\ UNCHANGED <<verified, oids, now, cfg, call, geoms, users, tasks, count, update_event, procPc, loopPc, loopTask, hs, current_day, calls, faults>>

\* A user and a form test that is new, scheduled, or finished
TestSetup(is_scheduled, is_finished) ==
    [now |-> 25200, cfg |-> ApiCfg, users |-> (1 :> CredUser) @@ (2 :> NewUser), tasks |-> EmptyFn,
     interrupted |-> {{}}, tests |-> (TestId :> FormTest(is_scheduled, is_finished))]

InitTest == InitWith({TestSetup(FALSE, FALSE), TestSetup(TRUE, FALSE), TestSetup(TRUE, TRUE)})

PostTestForm ==
    \/ \E u \in UserIds : TestFormFind(u)
    \/ \E rid \in 1..MaxRequests :
          \/ TestFormUser(rid)
          \/ TestFormCreate(rid)
          \/ TestFormCreateRemoval(rid)
          \/ TestFormCommit(rid)

NextTest == Start \/ InitCheckDay \/ PostTestForm

SpecTest == InitTest /\ [][NextTest]_vars

(***************************************************************************)
(* SpecCalls: functions evaluated on their own, each on arguments drawn    *)
(* from a bounded set.                                                     *)
(***************************************************************************)
\* call is applied to nothing else than its arguments
Evaluate(fn, after) ==
    /\ call.fn = fn
    /\ call.status = "called"
    /\ call' = after
    /\ UNCHANGED <<now, cfg, shared, users, tasks, count, update_event, procPc, loopPc, loopTask, hs,
                   current_day, calls, faults, reqs, verified, reply, oids, geoms>>

\* Run-time windows as LOCKBOX_FILL_FORM_RUN_TIME can set them: %H:%M:%S
\* times with start <= end
RunTimes == {[h |-> h, m |-> m, s |-> sec] : h \in 7..8, m \in {0, 15, 45}, sec \in {0, 30}}

RunTimeCalls ==
    {[fn |-> "next_run_time", status |-> "called", range |-> range, at |-> 0] :
        range \in {r \in RunTimes \X RunTimes : Secs(r[1]) <= Secs(r[2])}}

\* tasks.next_run_time; random.randint(0, time_diff) raises ValueError on an
\* empty range
NextRunTime ==
    /\ call.fn = "next_run_time"
    /\ IF TimeDiff(call.range) < 0
       THEN Evaluate("next_run_time", [call EXCEPT !.status = "raised"])
       ELSE \E t \in next_run_time(call.range, now) :
               Evaluate("next_run_time", [call EXCEPT !.status = "returned", !.at = t])

\* Python's "x in y" on two strings (sequences of characters)
Substring(x, y) ==
    \E i \in 0..(Len(y) - Len(x)) : SubSeq(y, i + 1, i + Len(x)) = x

\* Lists of at most n elements of S
Lists(S, n) == UNION {[1..k -> S] : k \in 0..n}

\* Label segments and the sub-fields of a form as fenetre stores them
Segments == {<<"a">>, <<"b">>, <<"a", "b">>, <<"b", "a">>}

FormFields == [index_on_page : 0..2, expected_label_segment : Segments]

ValidateCalls ==
    {[fn |-> "_validate_form_fields", status |-> "called", x |-> x] :
        x \in Lists(FormFields, MaxItems)}

\* itertools.combinations(x, 2): the pairs in the order of the list
Combinations(x) == {p \in (DOMAIN x) \X (DOMAIN x) : p[1] < p[2]}

\* fenetre.db._validate_form_fields: returns, or raises ValidationError
ValidateFormFields ==
    /\ call.fn = "_validate_form_fields"
    /\ LET x == call.x IN
       Evaluate("_validate_form_fields",
                IF Cardinality({x[i].index_on_page : i \in DOMAIN x}) # Len(x)
                   \/ \E p \in Combinations(x) :
                         Substring(x[p[1]].expected_label_segment, x[p[2]].expected_label_segment)
                THEN [call EXCEPT !.status = "raised"]
                ELSE [call EXCEPT !.status = "returned"])

\* fenetre.auth.generate_signup_code: the truncated HMAC of the minute,
\* taken to differ for different secrets and minutes
generate_signup_code(hmac_secret, unix_time) == <<hmac_secret, unix_time \div 60>>

\* "for offset in range(-2, 7)"
SignupOffsets == -2..6

\* Codes generated at minute 20 and verified up to 8 minutes before or after
SignupCalls ==
    {[fn |-> "verify_signup_code", status |-> "called", accepted |-> FALSE,
      token |-> generate_signup_code("k", t), generated_at |-> t, current_time |-> c] :
        t \in {1200, 1230}, c \in {1200 + 60 * d + e : d \in -8..8, e \in {0, 30}}}

\* fenetre.auth.verify_signup_code against the provider with secret "k"
VerifySignupCode ==
    /\ call.fn = "verify_signup_code"
    /\ Evaluate("verify_signup_code",
                [call EXCEPT !.status = "returned",
                             !.accepted = \E offset \in SignupOffsets :
                                 call.token = generate_signup_code("k", call.current_time + offset * 60)])

\* What filling one component can meet: the index is beyond the page, the
\* header lacks the expected title, _fill_in_field raises
\* NoSuchElementException, TypeError or TimeoutException; "no_header": the
\* item at the index has no title element and _get_input_header raises
\* NoSuchElementException, outside the clauses that turn errors into
\* GhosterInvalidForm
FieldOutcomes == {"ok", "out_of_range", "title_mismatch", "wrong_element", "wrong_type",
                  "timeout", "no_header"}

\* The outcomes raised as GhosterInvalidForm
InvalidForm(component) == component.outcome \notin {"ok", "no_header"}

\* ghoster.fill_form on components (index, title, kind, value, critical),
\* once the form is loaded: i is the component the loop is at
GhosterCalls ==
    {[fn |-> "fill_form", status |-> "called", components |-> components, dry_run |-> dry_run,
      i |-> 1, attempted |-> <<>>, warnings |-> <<>>, clicked |-> FALSE] :
        components \in Lists([critical : BOOLEAN, outcome : FieldOutcomes], MaxItems),
        dry_run \in BOOLEAN}

AbortsNever(component) == FALSE

\* "except GhosterInvalidForm as e: if critical: raise"
Aborts(component) == InvalidForm(component) /\ component.critical

\* One pass of "for (index, expected_title, kind, value, critical) in components"
GhosterField ==
    /\ call.fn = "fill_form"
    /\ call.i <= Len(call.components)
    /\ LET component == call.components[call.i]
           tried == [call EXCEPT !.attempted = Append(@, call.i)]
       IN Evaluate("fill_form",
                   IF component.outcome = "no_header"
                   THEN [tried EXCEPT !.status = "NoSuchElementException"]
                   ELSE IF Aborts(component)
                   THEN [tried EXCEPT !.status = "GhosterInvalidForm"]
                   ELSE IF InvalidForm(component)
                   THEN [tried EXCEPT !.warnings = Append(@, call.i), !.i = @ + 1]
                   ELSE [tried EXCEPT !.i = @ + 1])

\* After the loop: the screenshot, the return of a dry run, the click on the
\* submit button and the wait for the response page (late: it times out)
GhosterSubmit(late) ==
    /\ call.fn = "fill_form"
    /\ call.i > Len(call.components)
    /\ Evaluate("fill_form",
                IF call.dry_run THEN [call EXCEPT !.status = "returned"]
                ELSE IF late THEN [call EXCEPT !.clicked = TRUE, !.status = "GhosterPossibleFail"]
                ELSE [call EXCEPT !.clicked = TRUE, !.status = "returned"])

Range(seq) == {seq[k] : k \in DOMAIN seq}

\* The portal's timetable items: course_code, course_teacher_name and the
\* slot string "{course_cycle_day}-{course_period}"
TimetableItems == [course_code : {"A", "B"}, teacher : {"", "T"}, slot : {"1-1a", "2-1a"}]

\* The Course collection the function finds: empty, or course A known from
\* another user without the name of its teacher
CourseCollections ==
    {{}, {[pk |-> 1, course_code |-> "A", teacher_name |-> "", known_slots |-> <<"1-1a">>]}}

\* db.populate_user_courses applied twice to the same timetable; once is
\* the state the first application left
PopulateCalls ==
    {[fn |-> "populate_user_courses", status |-> "called", courses |-> courses,
      clear_previous |-> clear, runs |-> 0,
      db |-> [docs |-> docs, user_courses |-> <<>>],
      once |-> [docs |-> docs, user_courses |-> <<>>]] :
        courses \in Lists(TimetableItems, MaxItems), clear \in BOOLEAN,
        docs \in CourseCollections}

UpsertAppending(db, course) ==
    LET found == {d \in db.docs : d.course_code = course.course_code}
        db_course == IF found = {}
                     THEN [pk |-> Cardinality(db.docs) + 1, course_code |-> course.course_code,
                           teacher_name |-> course.teacher, known_slots |-> <<>>]
                     ELSE LET d == CHOOSE d \in found : TRUE
                          IN [d EXCEPT !.teacher_name = IF @ = "" THEN course.teacher ELSE @]
        saved == [db_course EXCEPT !.known_slots = Append(@, course.slot)]
    IN [docs |-> (db.docs \ found) \cup {saved},
        user_courses |-> IF saved.pk \in Range(db.user_courses) THEN db.user_courses
                         ELSE Append(db.user_courses, saved.pk)]

\* The body of "for course in courses": find or make the Course document,
\* add the slot, commit it, add its pk to user.courses
Upsert(db, course) ==
    LET found == {d \in db.docs : d.course_code = course.course_code}
        db_course == IF found = {}
                     THEN [pk |-> Cardinality(db.docs) + 1, course_code |-> course.course_code,
                           teacher_name |-> course.teacher, known_slots |-> <<>>]
                     ELSE LET d == CHOOSE d \in found : TRUE
                          IN [d EXCEPT !.teacher_name = IF @ = "" THEN course.teacher ELSE @]
        saved == [db_course EXCEPT !.known_slots = IF course.slot \in Range(@) THEN @
                                                   ELSE Append(@, course.slot)]
    IN [docs |-> (db.docs \ found) \cup {saved},
        user_courses |-> IF saved.pk \in Range(db.user_courses) THEN db.user_courses
                         ELSE Append(db.user_courses, saved.pk)]

RECURSIVE UpsertAll(_, _, _)
UpsertAll(db, courses, k) ==
    IF k > Len(courses) THEN db ELSE UpsertAll(Upsert(db, courses[k]), courses, k + 1)

\* LockboxDB.populate_user_courses
populate_user_courses(db, courses, clear_previous) ==
    UpsertAll([db EXCEPT !.user_courses = IF clear_previous THEN <<>> ELSE @], courses, 1)

PopulateUserCourses ==
    /\ call.fn = "populate_user_courses"
    /\ LET db == populate_user_courses(call.db, call.courses, call.clear_previous) IN
       Evaluate("populate_user_courses",
                IF call.runs = 0
                THEN [call EXCEPT !.runs = 1, !.db = db, !.once = db]
                ELSE [call EXCEPT !.runs = 2, !.db = db, !.status = "returned"])

\* The process in which the functions are evaluated
CallsScenario ==
    [now |-> 25200,
     cfg |-> [horizon |-> 25200, submit_enabled |-> TRUE, portal_day |-> <<"D", "2">>,
              rand |-> {0, 1, 2}, max_events |-> 0],
     users |-> (1 :> CredUser), tasks |-> EmptyFn, interrupted |-> {{}}]

CallInputs ==
    RunTimeCalls \cup ValidateCalls \cup SignupCalls \cup GhosterCalls \cup PopulateCalls

InitCalls == InitRun({CallsScenario}, CallInputs)

NextCalls ==
    \/ NextRunTime
    \/ ValidateFormFields
    \/ VerifySignupCode
    \/ GhosterField
    \/ \E late \in BOOLEAN : GhosterSubmit(late)
    \/ PopulateUserCourses

SpecCalls == InitCalls /\ [][NextCalls]_vars

(***************************************************************************)
(* SpecLive: the scheduler running for ever.  The clock is kept within one *)
(* day: when it passes the end of the day, the clock and every timestamp   *)
(* are moved back by a day, which changes no difference between them and   *)
(* no time of day.  The steps of the loop between two waits take no time   *)
(* and the handlers are fast: time passes while the loop sleeps and no     *)
(* handler is running.                                                     *)
(***************************************************************************)
Min(S) == CHOOSE t \in S : \A u \in S : t <= u

\* Timestamp t when the clock is moved back by d
Shift(t, d) == t - d

\* asyncio.wait_for(self._update_event.wait(), timeout) sleeps until the
\* next instant at which something is scheduled
Elapse ==
    /\ loopPc = "waiting"
    /\ hs = EmptyFn
    /\ ~update_event
    /\ loopTask.id = 0 \/ loopTask.next_run_at > now
    /\ LET future == {t \in Instants : t > now} IN
       /\ future # {}
       /\ LET d == IF Min(future) >= Day THEN Day ELSE 0 IN
          /\ now' = Min(future) - d
          /\ tasks' = [i \in DOMAIN tasks |->
                          [tasks[i] EXCEPT !.next_run_at = Shift(@, d)]]
          /\ loopTask' = IF loopTask.id = 0 THEN loopTask
                         ELSE [loopTask EXCEPT !.next_run_at = Shift(@, d)]
    /\ UNCHANGED <<reqs, verified, reply, oids, cfg, shared, call, geoms, users, count, update_event, procPc, loopPc, hs, current_day, calls, faults>>

\* Four browser tasks that have used up their retries are due, one more
\* than the firefox group admits, and the check of the day is due later; up
\* to FIREFOX_LIMIT handlers fail
LiveRush ==
    [now |-> 60,
     cfg |-> [SchedCfg EXCEPT !.max_events = FIREFOX_LIMIT],
     users |-> (1 :> CredUser),
     tasks |-> [i \in 1..(FIREFOX_LIMIT + 1) |->
                   T("test-fill-form", 5 + i, 1, TEST_FILL_RETRY_LIMIT + 1)]
               @@ (5 :> T("check-day", 3000, 0, 0)),
     interrupted |-> {{}}]

InitLive == InitWith({LiveRush})

NextLive == Start \/ InitCheckDay \/ Loop \/ RunTask \/ Elapse

\* The event loop runs every coroutine that can run, and time passes
Fairness ==
    /\ WF_vars(Start) /\ WF_vars(InitCheckDay)
    /\ WF_vars(Loop)
    /\ \A id \in TaskIds : WF_vars(FetchOwner(id) \/ HRun(id) \/ HWrite(id)
                                     \/ (\E got \in BOOLEAN : CheckDay(id, got)) \/ CheckDayRaises(id))
    /\ WF_vars(Elapse)

SpecLive == InitLive /\ [][NextLive]_vars /\ Fairness

(***************************************************************************)
(* SpecQueue: the requests that enqueue work for every user or for a form: *)
(* POST /update_all_courses and POST /form_geometry.                       *)
(***************************************************************************)
\* POST /update_all_courses
PostUpdateAllCourses ==
    /\ procPc = "up"
    /\ Budget
    /\ calls' = calls + 1
    /\ UpdateAllCourses(BatchSize(cfg.batch_size), Interval(cfg.interval))
    /\ reply' = Response("POST /update_all_courses", "none", 204, "")
    /\ UNCHANGED <<reqs, verified, oids, now, cfg, shared, call, geoms, users, count, procPc, loopPc, loopTask, hs, current_day, faults>>

\* A LockboxDB.get_form_geometry coroutine
GeometryFrame(pc, u, url, found, status) ==
    [pc |-> pc, uid |-> u, url |-> url, found |-> found, status |-> status]

\* The response of _post_form_geometry for a result whose geometry is None:
\* 200 with "pending": true
Pending == Response("POST /form_geometry", "valid", 200, "")

\* POST /form_geometry by the user with id u (0: the token names no user),
\* up to the lookup of the cache entry.  An entry of the model has neither
\* geometry nor screenshot, so a request that finds it is answered "pending"
\* whether or not it asks for a screenshot.
GeomFind(u, url, grab_screenshot) ==
    /\ procPc = "up"
    /\ Budget
    /\ calls' = calls + 1
    /\ LET geom == url \in geoms
           screenshot_valid == ~(geom /\ grab_screenshot)
           geometry == None
           rid == calls + 1
       IN IF u \notin DOMAIN users
          THEN /\ reply' = Response("POST /form_geometry", "unknown", 401, "Bad token")
               /\ reqs' = (rid :> GeometryFrame("done", u, url, geom, 401)) @@ reqs
          ELSE IF ~HasCredentials(users[u])
          THEN /\ reply' = Response("POST /form_geometry", "valid", 409,
                                    "Cannot sign into form: Missing credentials")
               /\ reqs' = (rid :> GeometryFrame("done", u, url, geom, 409)) @@ reqs
          ELSE IF ~geom \/ (~screenshot_valid /\ geometry # None)
          THEN /\ reqs' = (rid :> GeometryFrame("geom_commit", u, url, geom, 0)) @@ reqs
               /\ UNCHANGED reply
          ELSE /\ reply' = Pending
               /\ reqs' = (rid :> GeometryFrame("done", u, url, geom, 200)) @@ reqs
    /\ UNCHANGED <<verified, oids, now, cfg, shared, call, geoms, users, tasks, count, update_event, procPc, loopPc, loopTask, hs, current_day, faults>>

\* "await geom.commit()": the insert of the new entry.  url is unique in
\* the collection (the index is made by LockboxDB.init), so the insert of a
\* second entry for the url raises; the exception is not a LockboxDBError
\* and the request ends with 500.
GeomCommit(rid) ==
    /\ rid \in DOMAIN reqs
    /\ reqs[rid].pc = "geom_commit"
    /\ IF reqs[rid].url \in geoms
       THEN /\ Answered(rid, Response("POST /form_geometry", "valid", 500, "Internal Server Error"))
            /\ UNCHANGED geoms
       ELSE /\ geoms' = geoms \cup {reqs[rid].url}
            /\ reqs' = [reqs EXCEPT ![rid].pc = "geom_task"]
            /\ UNCHANGED reply
    /\ UNCHANGED <<verified, oids, now, cfg, shared, call, users, tasks, count, update_event, procPc, loopPc, loopTask, hs, current_day, calls, faults>>

\* create_task(GET_FORM_GEOMETRY, owner=user, argument=str(geom.pk))
GeomGetTask(rid) ==
    /\ rid \in DOMAIN reqs
    /\ reqs[rid].pc = "geom_task"
    /\ create_task("get-form-geometry", now, reqs[rid].uid, reqs[rid].url)
    /\ reqs' = [reqs EXCEPT ![rid].pc = "geom_cleanup"]
    /\ UNCHANGED <<verified, reply, oids, now, cfg, shared, call, geoms, users, count, procPc, loopPc, loopTask, hs, current_day, calls, faults>>

\* create_task(REMOVE_OLD_FORM_GEOMETRY, utcnow() + 15 minutes, ...) and the
\* return of the pending result
GeomRemoveTask(rid) ==
    /\ rid \in DOMAIN reqs
    /\ reqs[rid].pc = "geom_cleanup"
    /\ create_task("remove-old-form-geometry", now + FORM_GEOMETRY_TTL, reqs[rid].uid, reqs[rid].url)
    /\ Answered(rid, Pending)
    /\ UNCHANGED <<verified, oids, now, cfg, shared, call, geoms, users, count, procPc, loopPc, loopTask, hs, current_day, calls, faults>>

FormUrls == {"form-a", "form-b"}

PostFormGeometry ==
    \/ \E u \in UserIds \cup {0}, url \in FormUrls, grab_screenshot \in BOOLEAN :
          GeomFind(u, url, grab_screenshot)
    \/ \E rid \in 1..MaxRequests : GeomCommit(rid) \/ GeomGetTask(rid) \/ GeomRemoveTask(rid)

\* A user with a login and no password
LoginOnly == [NewUser EXCEPT !.login = "300"]

\* Three users, with credentials or without (the third with a login only);
\* the environment sets the batch size to 1 or 2 or not at all (0), the
\* interval to 0 or 30 or not at all (-1)
QueueScenarios ==
    {[now |-> 25200,
      cfg |-> [horizon |-> 25200, submit_enabled |-> TRUE, portal_day |-> <<"D", "2">>,
               rand |-> {1}, max_events |-> MaxRequests,
               batch_size |-> env[1], interval |-> env[2]],
      users |-> (1 :> u1) @@ (2 :> u2) @@ (3 :> u3), tasks |-> EmptyFn,
      interrupted |-> {{}}] :
        env \in {<<0, -1>>, <<1, 0>>, <<1, 30>>, <<2, 0>>, <<2, 30>>},
        u1 \in {CredUser, NewUser}, u2 \in {CredUser, NewUser}, u3 \in {CredUser, LoginOnly}}

InitQueue == InitWith(QueueScenarios)

NextQueue ==
    \/ Start
    \/ InitCheckDay
    \/ PostUpdateAllCourses
    \/ PostFormGeometry

SpecQueue == InitQueue /\ [][NextQueue]_vars

(***************************************************************************)
(* SpecControl: Spec with the scheduler started a second time or its loop  *)
(* cancelled.                                                              *)
(***************************************************************************)
\* Scheduler.start called on the running scheduler: _init resets every task
\* that has is_running = true and a second _run coroutine is spawned.  The
\* loops are not followed further ("forked"); the handlers are.
StartAgain ==
    /\ procPc = "up"
    /\ loopPc \in {"select", "waiting", "commit_push", "commit_run"}
    /\ Budget
    /\ calls' = calls + 1
    /\ tasks' = InitTasks
    /\ loopPc' = "forked"
    /\ UNCHANGED <<reqs, verified, reply, oids, now, cfg, shared, call, geoms, users, count, update_event, procPc, loopTask, hs, current_day, faults>>

\* The _run coroutine is cancelled: CancelledError is raised at the await it
\* is suspended in and ends the loop.  written says whether the database
\* still performs the write of a task.commit() that was awaited.
Cancel(written) ==
    /\ loopPc \in {"select", "waiting", "commit_push", "commit_run"}
    /\ written => loopPc \in {"commit_push", "commit_run"} /\ loopTask.id \in DOMAIN tasks
    /\ Budget
    /\ calls' = calls + 1
    /\ tasks' = IF ~written THEN tasks
                ELSE IF loopPc = "commit_run" THEN [tasks EXCEPT ![loopTask.id].is_running = TRUE]
                ELSE [tasks EXCEPT ![loopTask.id].next_run_at = loopTask.next_run_at]
    /\ loopPc' = "cancelled"
    /\ UNCHANGED <<reqs, verified, reply, oids, now, cfg, shared, call, geoms, users, count, update_event, procPc, loopTask, hs, current_day, faults>>

NextControl == Next \/ StartAgain \/ \E written \in BOOLEAN : Cancel(written)

SpecControl == Init /\ [][NextControl]_vars

(***************************************************************************)
(* SpecReport: SpecFill with a user who has a failure event on record and  *)
(* deletes events while the fill-form task runs.                           *)
(***************************************************************************)
ReportDue ==
    [FormDue(0, TRUE) EXCEPT !.cfg.max_events = MaxEvents, !.cfg.rand = {0},
                             !.cfg.horizon = @ - FILL_FORM_RETRY_IN,
                             !.users = (1 :> [CredUser EXCEPT !.errors = {1}])]

InitReport == InitWith({ReportDue, NoSchool})

NextReport == NextFill \/ \E u \in UserIds, eid \in 1..oids : DeleteUserError(u, eid)

SpecReport == InitReport /\ [][NextReport]_vars

(***************************************************************************)
(* Properties.                                                             *)
(***************************************************************************)
\* The step in which the handler of frame id ends and _run_task takes over
Finishes(id) == id \in DOMAIN hs /\ hs[id].pc # "write" /\ id \in DOMAIN hs' /\ hs'[id].pc = "write"

\* The step in which _run_task's last database operation for id takes effect
Writes(id) == id \in DOMAIN hs /\ hs[id].pc = "write" /\ id \notin DOMAIN hs'

\* The handlers running for the kinds of group g
Running(g) == {i \in DOMAIN hs : hs[i].pc # "write" /\ hs[i].task.kind \in GroupTypes(g)}

\* Tomorrow's window of the fill-form tasks, seen from instant t
TomorrowWindow(t) ==
    LET base == LocalMidnight(LocalDay(t) + 1) IN
    (base + Secs(FILL_FORM_RUN_TIME[1]))..(base + Secs(FILL_FORM_RUN_TIME[2]))

\* C1: a fill-form run in which ghoster.fill_form has clicked the submit
\* button does not end in a retry error, whatever happens after the click.
SubmittedRunNeverRetried ==
    \A id \in DOMAIN hs :
        (hs[id].pc = "write" /\ hs[id].clicked) => hs[id].result.type # "retry"

\* C2: once the scheduler is started, a task document that has
\* is_running = true has a _run_task coroutine alive: however a dispatched run
\* ends, the task is deleted or persisted with is_running = false.
NoTaskLeftRunning ==
    procPc # "constructed" =>
        \A i \in DOMAIN tasks : tasks[i].is_running => i \in DOMAIN hs

\* C3: Scheduler.start leaves no task with is_running = true, whatever tasks
\* were running before, and changes no other field of any task.
StartResetsRunning ==
    [][(procPc = "constructed" /\ procPc' = "started") =>
          /\ DOMAIN tasks' = DOMAIN tasks
          /\ \A i \in DOMAIN tasks :
                /\ ~tasks'[i].is_running
                /\ tasks'[i] = [tasks[i] EXCEPT !.is_running = FALSE]]_vars

\* The scheduler has just been started on a database that held a running task
StartHasReset ==
    /\ procPc = "started"
    /\ loopPc = "select"
    /\ loopTask = NoSnap
    /\ \E i \in DOMAIN tasks : tasks[i].retry_count > 0
    /\ \A i \in DOMAIN tasks : ~tasks[i].is_running

\* C4: for every group the number of running handlers of its kinds is at most
\* the group's limit, and the group's counter is within 0..limit.
RateLimitsHold ==
    \A g \in GroupNames :
        /\ count[g] \in 0..GroupLimit(g)
        /\ Cardinality(Running(g)) <= GroupLimit(g)

\* Three browser handlers run and the firefox counter is at its limit
BrowserLimitReached ==
    /\ count["firefox"] = FIREFOX_LIMIT
    /\ Cardinality(Running("firefox")) = FIREFOX_LIMIT
    /\ \E i \in DOMAIN tasks : ~tasks[i].is_running /\ tasks[i].kind = "test-fill-form" /\ tasks[i].next_run_at <= now

\* C5: when a dispatched handler finishes, in whatever way, every group
\* counter of the task's kind goes down by exactly one.
FinishDecrementsCounters ==
    [][\A id \in DOMAIN hs :
          Finishes(id) =>
             count' = [g \in GroupNames |->
                          IF hs[id].task.kind \in GroupTypes(g) THEN count[g] - 1 ELSE count[g]]]_vars

\* C6: a due task found at a group's limit is pushed back by 30 seconds in
\* memory and then in the database; the task's other fields, the other
\* tasks, the handlers and the counters stay as they are.
PushBackOnly ==
    [][/\ (loopPc # "commit_push" /\ loopPc' = "commit_push") =>
             /\ \E i \in DOMAIN tasks :
                   /\ ~tasks[i].is_running
                   /\ tasks[i].next_run_at <= now
                   /\ AtLimit(tasks[i].kind)
                   /\ loopTask' = [Snap(i) EXCEPT !.next_run_at = tasks[i].next_run_at + 30]
             /\ UNCHANGED <<tasks, hs, count>>
       /\ (loopPc = "commit_push" /\ loopPc' # "commit_push") =>
             /\ loopPc' = "select"
             /\ loopTask.id \in DOMAIN tasks
             /\ tasks' = [tasks EXCEPT ![loopTask.id].next_run_at = tasks[loopTask.id].next_run_at + 30]
             /\ UNCHANGED <<hs, count>>]_vars

\* The loop holds an overdue task it found at the browser limit, pushed back
PushBackPending ==
    /\ loopPc = "commit_push"
    /\ loopTask.id \in DOMAIN tasks
    /\ tasks[loopTask.id].next_run_at < now
    /\ loopTask.next_run_at = tasks[loopTask.id].next_run_at + 30
    /\ count["firefox"] = FIREFOX_LIMIT

RetryErrorHandling ==
    [][\A id \in DOMAIN hs :
          /\ (Finishes(id) /\ hs'[id].result.type = "retry") =>
                hs'[id].task = [hs[id].task EXCEPT !.next_run_at = now + hs'[id].result.at,
                                                   !.retry_count = hs[id].task.retry_count + 1,
                                                   !.is_running = FALSE]
          /\ (Writes(id) /\ hs[id].result.type = "retry" /\ id \in DOMAIN tasks) =>
                /\ DOMAIN tasks' = DOMAIN tasks
                /\ tasks' = [tasks EXCEPT ![id].next_run_at = hs[id].task.next_run_at,
                                          ![id].retry_count = tasks[id].retry_count + 1,
                                          ![id].is_running = FALSE]
          /\ (Writes(id) /\ hs[id].result.type = "fail") =>
                tasks' = Remove(tasks, id)]_vars

\* A form test has just been rescheduled after a retry error
RetryPersisted ==
    \E i \in DOMAIN tasks :
        /\ i \notin DOMAIN hs
        /\ tasks[i].kind = "test-fill-form"
        /\ ~tasks[i].is_running
        /\ tasks[i].retry_count >= 1
        /\ tasks[i].next_run_at = now + TEST_FILL_RETRY_IN
        /\ faults = 1

\* C9: a fill-form run ends in a retry only while retry_count is below the
\* limit, and the retry is 1800 s later with retry_count one higher; a run
\* that returns is rescheduled into tomorrow's window with retry_count 0; no
\* fill-form task ever has more than FILL_FORM_RETRY_LIMIT retries.
FillFormRetryBudget ==
    [][/\ \A id \in DOMAIN hs :
             (Finishes(id) /\ hs[id].task.kind = "fill-form") =>
                /\ hs'[id].result.type = "retry" =>
                      /\ hs[id].task.retry_count < FILL_FORM_RETRY_LIMIT
                      /\ hs'[id].task.next_run_at = now + 1800
                      /\ hs'[id].task.retry_count = hs[id].task.retry_count + 1
                /\ hs'[id].result.type = "return" =>
                      /\ hs'[id].task.retry_count = 0
                      /\ hs'[id].task.next_run_at \in TomorrowWindow(now)
       /\ \A i \in DOMAIN tasks' :
             tasks'[i].kind = "fill-form" => tasks'[i].retry_count <= FILL_FORM_RETRY_LIMIT]_vars

\* A fill-form run that started with the retry budget used up has failed
\* again and ended by returning tomorrow's time, its retry_count reset
BudgetUsedUp ==
    \E id \in DOMAIN hs :
        /\ hs[id].pc = "write"
        /\ hs[id].task.kind = "fill-form"
        /\ hs[id].ghost = "invalid_form"
        /\ hs[id].result.type = "return"
        /\ id \in DOMAIN tasks
        /\ tasks[id].retry_count = FILL_FORM_RETRY_LIMIT
        /\ hs[id].task.retry_count = 0

\* C10: the update of a check-day run on a day without school adds 24 h to
\* every fill-form task whose next_run_at is within the local day of the run,
\* overdue or not, and changes no other task.
NoSchoolPushesToday ==
    [][\A id \in DOMAIN hs :
          (hs[id].pc = "push" /\ Finishes(id) /\ hs'[id].result.type = "return") =>
             /\ DOMAIN tasks' = DOMAIN tasks
             /\ \A i \in DOMAIN tasks :
                   tasks'[i] = IF tasks[i].kind = "fill-form"
                                  /\ LocalDay(tasks[i].next_run_at) = LocalDay(hs[id].start)
                               THEN [tasks[i] EXCEPT !.next_run_at = @ + 86400]
                               ELSE tasks[i]]_vars

\* C18: a fill-form run with submission disabled that fills all fields never
\* clicks the submit button and records the result submit-disabled.
DryRunRecordsSubmitDisabled ==
    \A id \in DOMAIN hs :
        (~cfg.submit_enabled /\ hs[id].pc = "write" /\ hs[id].ghost = "returned"
            /\ hs[id].storage = "ok") =>
           /\ ~hs[id].clicked
           /\ hs[id].recorded = "submit-disabled"

\* C19: a fill-form run in which the browser adapter reports an
\* authentication failure ends by returning tomorrow's time, never in a retry.
AuthFailureNotRetried ==
    \A id \in DOMAIN hs :
        (hs[id].pc = "write" /\ hs[id].ghost = "auth_failed" /\ hs[id].storage = "ok") =>
           hs[id].result.type = "return"

\* C20: a fill-form run in which the expression of a non-critical field
\* fails to evaluate goes on to fill the form in the browser.
NonCriticalFieldErrorContinues ==
    \A id \in DOMAIN hs :
        (hs[id].pc = "write" /\ hs[id].field_error = "noncritical" /\ hs[id].storage = "ok") =>
           hs[id].ghost # "none"

\* C15: whatever the interleaving of a fill-form run that reports a failure
\* and a DELETE /user/error on the same user, a step adds to a user's errors
\* only events made in that step: a deleted event never comes back.
ErrorsNeverRestored ==
    [][\A u \in DOMAIN users \cap DOMAIN users' :
          users'[u].errors \ users[u].errors \subseteq (oids + 1)..oids']_vars

\* C16: calling Scheduler.start on a scheduler that is running resets the
\* is_running flag of no task whose handler is executing.
StartAgainKeepsRunningTasks ==
    [][(loopPc # "forked" /\ loopPc' = "forked") =>
          \A id \in DOMAIN hs :
             (hs[id].pc # "write" /\ id \in DOMAIN tasks) =>
                tasks'[id].is_running = tasks[id].is_running]_vars

\* C17: once the loop is cancelled, every task with is_running = true has a
\* handler and every group counter equals the number of handlers running for
\* the group.
CancelLeavesNothingHot ==
    loopPc = "cancelled" =>
        /\ \A i \in DOMAIN tasks : tasks[i].is_running => i \in DOMAIN hs
        /\ \A g \in GroupNames : count[g] = Cardinality(Running(g))

\* C11: every user whose persisted document has both login and password set
\* holds a pair that a portal login accepted during some PATCH /user.
StoredCredentialsVerified ==
    \A u \in DOMAIN users :
        HasCredentials(users[u]) =>
           <<users[u].login, Decrypt(users[u].password)>> \in verified

\* C12: the step of a PATCH /user in which the portal rejects the login with
\* 401 answers 400 "Incorrect TDSB credentials" and changes neither the users
\* nor the tasks.
RejectedLoginChangesNothing ==
    [][\A rid \in DOMAIN reqs :
          (reqs[rid].pc = "login" /\ reqs'[rid].answer = "unauthorized") =>
             /\ reqs'[rid].pc = "done"
             /\ reply' = Response("PATCH /user", "valid", 400, "Incorrect TDSB credentials")
             /\ users' = users
             /\ tasks' = tasks]_vars

\* C12 witness: a PATCH /user that also set active to another value was
\* rejected by the portal and has been answered.
RejectedPatchAnswered ==
    \E rid \in DOMAIN reqs :
        /\ reqs[rid].pc = "done"
        /\ reqs[rid].answer = "unauthorized"
        /\ "active" \in reqs[rid].body.fields
        /\ reqs[rid].uid \in DOMAIN users
        /\ users[reqs[rid].uid].active # reqs[rid].body.active
        /\ reply.status = 400

\* C13: a request to an endpoint other than POST /user without the token of
\* an existing user is answered 401 and changes no user, no task and does
\* not wake the scheduler.
AnonymousRejected ==
    [][(calls' # calls /\ reqs' = reqs /\ reply'.token # "valid") =>
          /\ reply'.status = 401
          /\ UNCHANGED <<users, tasks, update_event>>]_vars

\* C14: when the same PATCH /user body was answered 204 twice for a user, the
\* second request begun after the first was answered, the user has at most
\* one fill-form task and at most one populate-courses task.
SamePatchTwiceNoDuplicate ==
    \A r1, r2 \in DOMAIN reqs :
        (/\ r1 \in reqs[r2].prior
         /\ reqs[r2].pc = "done"
         /\ reqs[r1].status = 204 /\ reqs[r2].status = 204
         /\ reqs[r1].uid = reqs[r2].uid
         /\ reqs[r1].body = reqs[r2].body) =>
           /\ Cardinality(FillFormTasks(reqs[r1].uid)) <= 1
           /\ Cardinality({i \in DOMAIN tasks : tasks[i].kind = "populate-courses"
                                                /\ tasks[i].owner = reqs[r1].uid}) <= 1

\* C22: a populate-courses run whose portal call fails is rescheduled 600 s
\* later with retry_count + 1 while retry_count is below 12, and ends in the
\* deletion of the task when retry_count is 12; retry_count never passes 12.
PopulateRetriesThenGivesUp ==
    [][\A id \in DOMAIN hs :
          (/\ hs[id].pc = "body"
           /\ hs[id].task.kind = "populate-courses"
           /\ hs[id].task.owner # 0
           /\ HasCredentials(hs[id].owner)
           /\ Finishes(id)
           /\ hs'[id].result.type \in {"retry", "fail"}) =>
             IF hs[id].task.retry_count < 12
             THEN /\ hs'[id].result.type = "retry"
                  /\ hs'[id].task.retry_count = hs[id].task.retry_count + 1
                  /\ hs'[id].task.next_run_at = now + 600
                  /\ ~hs'[id].task.is_running
             ELSE /\ hs[id].task.retry_count = 12
                  /\ hs'[id].result.type = "fail"]_vars

\* C22 (witness): the run at retry_count 12 has failed and its task is
\* about to be deleted
PopulateGivenUp ==
    \E id \in DOMAIN hs :
        /\ hs[id].pc = "write"
        /\ hs[id].task.kind = "populate-courses"
        /\ hs[id].task.retry_count = 12
        /\ hs[id].result.type = "fail"
        /\ hs[id].task.owner # 0
        /\ HasCredentials(hs[id].owner)

\* C23: the check-day run that finds no working credentials sets current_day
\* to none and, with retry_count below 1, is retried 3600 s later with
\* retry_count + 1; otherwise it is rescheduled at tomorrow's check-day time
\* with retry_count 0.  It is never deleted.
NoCredentialsRetriedOnce ==
    [][\A id \in DOMAIN hs :
          (/\ hs[id].pc = "body"
           /\ hs[id].task.kind = "check-day"
           /\ Finishes(id)
           /\ faults' # faults
           /\ hs'[id].result.type # "exception") =>
             /\ current_day' = NoDay
             /\ IF hs[id].task.retry_count < 1
                THEN /\ hs'[id].result = Retry(3600)
                     /\ hs'[id].task.retry_count = hs[id].task.retry_count + 1
                     /\ hs'[id].task.next_run_at = now + 3600
                ELSE /\ hs'[id].result.type = "return"
                     /\ hs'[id].task.retry_count = 0
                     /\ hs'[id].task.next_run_at =
                           LocalMidnight(LocalDay(now) + 1) + Secs(CHECK_DAY_RUN_TIME[1])]_vars

\* C23 witness: a check-day run that had been retried found no credentials
\* again and is about to be persisted for tomorrow with retry_count 0.
SecondFailureWaitsForTomorrow ==
    \E id \in DOMAIN hs \cap DOMAIN tasks :
        /\ hs[id].pc = "write"
        /\ hs[id].task.kind = "check-day"
        /\ hs[id].result.type = "return"
        /\ current_day = NoDay
        /\ faults > 0
        /\ tasks[id].retry_count = 1
        /\ hs[id].task.retry_count = 0

\* C30: a fill-form run for an active user with login and password, whose
\* document still exists, ends in a retry or in a returned time, never with
\* the task deleted.
FillFormNeverDeleted ==
    \A id \in DOMAIN hs :
        (/\ hs[id].pc = "write"
         /\ hs[id].task.kind = "fill-form"
         /\ hs[id].task.owner \in DOMAIN users
         /\ hs[id].owner.active
         /\ HasCredentials(hs[id].owner)) =>
           hs[id].result.type \in {"retry", "return"}

\* C29: next_run_time(start, end) returns an instant that in local time is
\* on tomorrow's date at a time of day within [start, end], for every window
\* with start <= end.
NextRunInsideWindow ==
    (call.fn = "next_run_time" /\ call.status # "called") =>
        /\ call.status = "returned"
        /\ LocalDay(call.at) = LocalDay(now) + 1
        /\ call.at - LocalMidnight(LocalDay(now) + 1) \in Secs(call.range[1])..Secs(call.range[2])

\* C27: form validation accepts a list of sub-fields only if the
\* index_on_page values are pairwise distinct and no expected_label_segment
\* is a substring of that of another field, in whatever order the fields are.
AcceptedFieldsUnambiguous ==
    (call.fn = "_validate_form_fields" /\ call.status = "returned") =>
        \A i, j \in DOMAIN call.x :
            i # j =>
               /\ call.x[i].index_on_page # call.x[j].index_on_page
               /\ ~Substring(call.x[i].expected_label_segment, call.x[j].expected_label_segment)

\* C28: a signup code generated for minute t is accepted by a verification
\* at any minute in [t-2, t+6] and rejected at any minute outside.
SignupCodeWindow ==
    (call.fn = "verify_signup_code" /\ call.status = "returned") =>
        (call.accepted <=>
            (call.current_time \div 60) - (call.generated_at \div 60) \in -2..6)

PopulateTwiceSameAsOnce ==
    (call.fn = "populate_user_courses" /\ call.runs = 2) =>
        /\ call.db = call.once
        /\ \A i, j \in DOMAIN call.db.user_courses :
              call.db.user_courses[i] = call.db.user_courses[j] => i = j
        /\ \A d, e \in call.db.docs : d.course_code = e.course_code => d = e
        /\ \A d \in call.db.docs :
              \A i, j \in DOMAIN d.known_slots : d.known_slots[i] = d.known_slots[j] => i = j
        /\ {c.course_code : c \in Range(call.courses)}
              = {d.course_code : d \in {e \in call.db.docs : e.pk \in Range(call.db.user_courses)}}

\* C24 witness: the timetable named course A twice with different slots, A
\* was in the collection before, and both runs are done.
PopulatedTwice ==
    /\ call.fn = "populate_user_courses"
    /\ call.runs = 2
    /\ Len(call.courses) = 2
    /\ call.courses[1].course_code = "A" /\ call.courses[2].course_code = "A"
    /\ call.courses[1].slot # call.courses[2].slot
    /\ \E d \in call.db.docs : d.course_code = "A" /\ Len(d.known_slots) = 2

\* The users update_all_courses enqueues a task for
WithCredentials == {u \in DOMAIN users : HasCredentials(users[u])}

\* What a POST /update_all_courses step creates: one populate-courses task
\* per user with login and password and no other task, the task of the
\* k-th such user at now + (k \div B) * I; no start time is shared by more
\* than B of them when the interval is in spaced
EnqueuedInBatches(spaced) ==
    LET new == DOMAIN tasks' \ DOMAIN tasks
        B == BatchSize(cfg.batch_size)
        I == Interval(cfg.interval)
        Rank(u) == Cardinality({v \in WithCredentials : v < u})
    IN /\ DOMAIN tasks \subseteq DOMAIN tasks'
       /\ \A i \in DOMAIN tasks : tasks'[i] = tasks[i]
       /\ \A i \in new : tasks'[i].kind = "populate-courses" /\ tasks'[i].owner \in WithCredentials
       /\ \A u \in WithCredentials :
             /\ Cardinality({i \in new : tasks'[i].owner = u}) = 1
             /\ \A i \in new : tasks'[i].owner = u =>
                    tasks'[i].next_run_at = now + (Rank(u) \div B) * I
       /\ I \in spaced =>
             \A i \in new : Cardinality({j \in new : tasks'[j].next_run_at = tasks'[i].next_run_at}) <= B
       /\ {tasks'[i].next_run_at : i \in new}
             = {now + j * I : j \in {Rank(u) \div B : u \in WithCredentials}}

\* C26: POST /update_all_courses creates exactly one populate-courses task
\* for each user with login and password and none for another user; the
\* k-th such user gets next_run_at = t0 + floor(k/B)*I, successive batches
\* start I apart, and at most B of the tasks share a start time, whatever
\* the interval.
BatchesOfAtMostB ==
    [][(calls' # calls /\ reqs' = reqs /\ reply'.endpoint = "POST /update_all_courses")
          => EnqueuedInBatches(0..UPDATE_COURSES_INTERVAL)]_vars

\* C26 (amended): as above, with at most B of the tasks sharing a start
\* time when the interval is greater than 0.
BatchesOfAtMostBWhenSpaced ==
    [][(calls' # calls /\ reqs' = reqs /\ reply'.endpoint = "POST /update_all_courses")
          => EnqueuedInBatches(1..UPDATE_COURSES_INTERVAL)]_vars

\* C26 (witness): three users with credentials were enqueued in batches of
\* two, 30 s apart: two tasks at t0 and one at t0 + 30
SecondBatchLater ==
    /\ reply.endpoint = "POST /update_all_courses"
    /\ cfg.batch_size = 2 /\ cfg.interval = 30
    /\ WithCredentials = UserIds
    /\ Cardinality({i \in DOMAIN tasks : tasks[i].kind = "populate-courses"
                                          /\ tasks[i].next_run_at = now}) = 2
    /\ Cardinality({i \in DOMAIN tasks : tasks[i].kind = "populate-courses"
                                          /\ tasks[i].next_run_at = now + 30}) = 1

\* C25: a POST /form_geometry of a user with credentials is answered
\* "pending"; when it found no entry for the url, the entry exists once it
\* is answered, with one get-form-geometry task and one
\* remove-old-form-geometry task due 15 minutes later; when it found the
\* pending entry, it creates no entry and no task.
GeometryRequestPending ==
    [][\A rid \in DOMAIN reqs' :
          (/\ reqs'[rid].pc = "done"
           /\ rid \in DOMAIN reqs => reqs[rid].pc # "done"
           /\ reqs'[rid].uid \in DOMAIN users
           /\ HasCredentials(users[reqs'[rid].uid])) =>
             LET url == reqs'[rid].url
                 Of(kind) == {i \in DOMAIN tasks' : tasks'[i].kind = kind /\ tasks'[i].argument = url}
             IN /\ reply' = Pending
                /\ url \in geoms'
                /\ Cardinality(Of("get-form-geometry")) <= 1
                /\ Cardinality(Of("remove-old-form-geometry")) <= 1
                /\ IF reqs'[rid].found
                   THEN geoms' = geoms /\ tasks' = tasks
                   ELSE /\ Cardinality(Of("get-form-geometry")) = 1
                        /\ Cardinality(Of("remove-old-form-geometry")) = 1
                        /\ \A i \in Of("remove-old-form-geometry") :
                              tasks'[i].next_run_at = now + 900]_vars

\* No API request and no handler is in progress
Quiescent == hs = EmptyFn /\ \A r \in DOMAIN reqs : reqs[r].pc = "done"

\* C31: in every quiescent state, a user owns a fill-form task if and only
\* if the user is active and has both login and password.
FillTaskIffEligible ==
    Quiescent =>
        \A u \in DOMAIN users :
            (\E i \in DOMAIN tasks : tasks[i].kind = "fill-form" /\ tasks[i].owner = u)
                <=> (users[u].active /\ HasCredentials(users[u]))

\* next_run_at reached, is_running = false
Due(i) == i \in DOMAIN tasks /\ ~tasks[i].is_running /\ tasks[i].next_run_at <= now

\* The task was marked running (its handler was started), or it is gone
Dispatched(i) == i \notin DOMAIN tasks \/ tasks[i].is_running

\* C32: under weak fairness, with handlers that terminate, every due task
\* is eventually dispatched.
DueTaskDispatched == \A i \in TaskIds : Due(i) ~> Dispatched(i)

PushedBackForThirtySeconds ==
    [][(loopPc = "commit_push" /\ loopPc' = "select")
          => tasks'[loopTask.id].next_run_at >= now + PUSH_BACK]_vars

\* A check-day run found no school today and returned after its update:
\* its task is committed for tomorrow or about to be
NoSchoolPushDone ==
    /\ current_day = -1
    /\ \E i \in DOMAIN tasks :
          /\ tasks[i].kind = "check-day"
          /\ IF i \in DOMAIN hs
             THEN hs[i].pc = "write" /\ hs[i].result.type = "return"
             ELSE ~tasks[i].is_running /\ tasks[i].next_run_at > now

\* C35: once a check-day run has found no school and completed its push, no
\* handler is started that day for a fill-form task that was scheduled
\* within the day, a task the loop had selected before the push included.
NoFillFormAfterNoSchool ==
    [][NoSchoolPushDone =>
          \A id \in TaskIds :
             (id \notin DOMAIN hs /\ id \in DOMAIN hs') =>
                ~(hs'[id].task.kind = "fill-form"
                  /\ LocalDay(hs'[id].task.next_run_at) = LocalDay(now))]_vars

TasksOf(kind, u) == {i \in DOMAIN tasks : tasks[i].kind = kind /\ tasks[i].owner = u}

\* C36: at all times a user owns at most one fill-form task, also while two
\* PATCH /user requests for the user are in progress.
OneFillFormTaskPerUser ==
    \A u \in UserIds : Cardinality(TasksOf("fill-form", u)) <= 1

\* C37: the Task collection never holds more than one check-day task, and
\* holds one once startup has completed.
OneCheckDayTask ==
    /\ Cardinality(CheckDayTasks) <= 1
    /\ procPc = "up" => CheckDayTasks # {}

\* C38: the step in which DELETE /user removes a user leaves no task owned
\* by that user in the Task collection.
DeleteUserRemovesTasks ==
    [][\A u \in UserIds :
          (u \in DOMAIN users /\ u \notin DOMAIN users') =>
             \A i \in DOMAIN tasks' : tasks'[i].owner # u]_vars

\* C39: at most one test-fill-form task is created for a FormFillingTest,
\* and a POST /test_form that begins after one was accepted is answered 409.
OneTaskPerFormTest ==
    /\ Cardinality({i \in DOMAIN tasks : tasks[i].kind = "test-fill-form"
                                          /\ tasks[i].argument = TestId}) <= 1
    /\ \A r \in DOMAIN reqs :
          (reqs[r].pc = "done" /\ \E q \in reqs[r].prior : reqs[q].status = 204)
             => reqs[r].status = 409

\* A fill-form run is between its first and its last write to the storage
FillFormRunning == \E i \in DOMAIN hs : hs[i].task.kind = "fill-form" /\ hs[i].pc # "write"

\* C40: when no fill-form run is under way, the screenshots in GridFS are
\* exactly those the users' persisted last_fill_form_result names.
ScreenshotsMatchResults ==
    ~FillFormRunning => shared.files = UNION {users[u].screenshots : u \in DOMAIN users}

====
